---- MODULE Spec2Model ----
(***************************************************************************)
(* Model of the sfdk control plane: the property-setting task              *)
(* (SetPropertiesTask and its accessors, BuiltinWorker::setProperties) and *)
(* the build-target reconciliation of the build engine                     *)
(* (BuildEnginePrivate::updateBuildTargets).                               *)
(*                                                                         *)
(* Strings (QString) are tuples of one-character strings, so that          *)
(* indexOf, left, mid, endsWith, startsWith, toInt and split are computed  *)
(* as the code computes them.                                              *)
(***************************************************************************)
EXTENDS Integers, Sequences, FiniteSets, TLC

VARIABLES
    \* ---- the resource as the accessors see it --------------------------
    kind,           \* which accessor the task owns: "emulator", "engine", "sdk"
    features,       \* VirtualMachine::features()
    vmRunning,      \* SdkManager::isRunningReliably(m_virtualMachine)
    autoStop,       \* qEnvironmentVariableIntValue(SFDK_AUTO_STOP_VMS_ENV_VAR) != 0
    live,           \* current property values of the VM / emulator / engine / manager
    \* ---- SetPropertiesTask and its accessor ----------------------------
    acc,            \* staged values (the m_* members of the accessors)
    m_needsVmOff,   \* SetPropertiesTask::m_needsVmOff
    lockDownOk,     \* local of SetPropertiesTask::set
    setOk,          \* the `ok` accumulated by the accessor's set()
    pc,             \* position of the control flow of the command
    nPrepared,      \* assignments consumed by the loop of setProperties
    prepareFailed,  \* task->prepareSet() has returned false for an assignment
    log,            \* calls made on the collaborators, in order
    errorString,    \* the message printed on qerr()
    exitCode,       \* *exitCode of setProperties
    exitStatus,     \* the Worker::ExitStatus returned
    notices,        \* number of deprecation notices emitted
    lastRequest,    \* the last begin* request of the supervisor and its acknowledgments
    inWait,         \* the control flow is inside execAsynchronous, the reactor runs
    \* ---- BuildEnginePrivate: the build-target cache ---------------------
    buildTargets,       \* QList<BuildTargetDump>
    buildTargetsData,   \* QList<BuildTargetData>
    sharedTargetsPath,  \* BuildEnginePrivate::sharedTargetsPath
    useSystemSettingsOnly, \* SdkPrivate::useSystemSettingsOnly()
    toolsDirs,          \* names of the targets whose tools directory exists on disk
    run,                \* record of the last refresh: its input and what it did
    \* ---- BuildEngineManager: the registry of build engines ---------------
    m_buildEngines,     \* std::vector<std::unique_ptr<BuildEngine>>
    merged,             \* record of the last fromMap: its input and what it did
    \* ---- BatchComposer and the asynchronous operations of a build engine --
    liveContexts,       \* the context objects that have not been destroyed
    asyncCalls,         \* the asynchronous operations called, with their functors
    m_queue,            \* the composer's queue of steps, the one in flight included
    batchLog,           \* what the composer did, in order
    engineProps,        \* what the completion handlers store in BuildEnginePrivate
    \* ---- Worker::run ------------------------------------------------------
    command,            \* the command: its hooks, as the module's script defines them
    runArguments,       \* QStringList arguments, as the filter leaves them
    runPc,              \* where Worker::run stands
    \* ---- BuiltinWorker::setProperties ------------------------------------
    argument            \* the assignment the loop of setProperties has read last

propVars == <<kind, features, vmRunning, autoStop, live, acc, m_needsVmOff, lockDownOk,
              setOk, pc, nPrepared, prepareFailed, log, errorString, exitCode, exitStatus, notices,
              lastRequest, inWait>>
targetVars == <<buildTargets, buildTargetsData, sharedTargetsPath, useSystemSettingsOnly,
                toolsDirs, run>>
batchVars == <<liveContexts, asyncCalls, m_queue, batchLog, engineProps>>
runVars == <<command, runArguments, runPc>>
engineVars == <<m_buildEngines, merged, batchVars, runVars>>
vars == <<propVars, targetVars, engineVars, argument>>

-----------------------------------------------------------------------------
(* QString helpers *)

Empty == <<>>

\* QString::indexOf(QChar): zero-based, -1 when absent
RECURSIVE IndexFrom(_, _, _)
IndexFrom(s, c, i) ==
    IF i > Len(s) THEN -1
    ELSE IF s[i] = c THEN i - 1
    ELSE IndexFrom(s, c, i + 1)

indexOf(s, c) == IndexFrom(s, c, 1)

\* QString::left(n): the whole string when n < 0 or n >= size
left(s, n) == IF n < 0 \/ n >= Len(s) THEN s ELSE SubSeq(s, 1, n)

\* QString::mid(pos): empty when pos is past the end
mid(s, pos) == IF pos >= Len(s) THEN Empty ELSE SubSeq(s, pos + 1, Len(s))

endsWith(s, c) == Len(s) > 0 /\ s[Len(s)] = c

chop(s, n) == IF n >= Len(s) THEN Empty ELSE SubSeq(s, 1, Len(s) - n)

startsWith(s, p) == Len(p) <= Len(s) /\ SubSeq(s, 1, Len(p)) = p

\* QString::contains(QString)
contains(s, p) ==
    \E i \in 1..(Len(s) - Len(p) + 1) : SubSeq(s, i, i + Len(p) - 1) = p

\* QString::trimmed()
RECURSIVE TrimLeft(_)
TrimLeft(s) == IF Len(s) > 0 /\ s[1] = " " THEN TrimLeft(Tail(s)) ELSE s

RECURSIVE TrimRight(_)
TrimRight(s) == IF Len(s) > 0 /\ s[Len(s)] = " " THEN TrimRight(chop(s, 1)) ELSE s

trimmed(s) == TrimRight(TrimLeft(s))

\* QString::split(' ', Qt::SkipEmptyParts)
RECURSIVE SplitFrom(_, _, _, _)
SplitFrom(s, sep, cur, out) ==
    IF s = Empty THEN (IF cur = Empty THEN out ELSE Append(out, cur))
    ELSE IF s[1] = sep
         THEN SplitFrom(Tail(s), sep, Empty, IF cur = Empty THEN out ELSE Append(out, cur))
         ELSE SplitFrom(Tail(s), sep, Append(cur, s[1]), out)

split(s, sep) == SplitFrom(s, sep, Empty, <<>>)

Digits == <<"0", "1", "2", "3", "4", "5", "6", "7", "8", "9">>

IsDigit(c) == \E d \in 1..10 : Digits[d] = c

DigitValue(c) == (CHOOSE d \in 1..10 : Digits[d] = c) - 1

IntMax == 2147483647

\* the magnitude of a string of digits: -2 when it is IntMax + 1, the magnitude
\* of the least int, and -1 when it is larger still
RECURSIVE DigitsValue(_, _)
DigitsValue(s, accu) ==
    IF s = Empty THEN accu
    ELSE IF accu < 0 THEN -1
    ELSE IF accu > (IntMax - DigitValue(s[1])) \div 10
    THEN DigitsValue(Tail(s), IF accu = IntMax \div 10
                                  /\ DigitValue(s[1]) = (IntMax % 10) + 1
                               THEN -2 ELSE -1)
    ELSE DigitsValue(Tail(s), accu * 10 + DigitValue(s[1]))

\* QString::toInt(&ok): an optional sign and decimal digits that fit an int;
\* the value is 0 when the conversion fails
toInt(s) ==
    LET neg == Len(s) > 0 /\ s[1] = "-"
        body == IF Len(s) > 0 /\ s[1] \in {"-", "+"} THEN Tail(s) ELSE s
        wellFormed == Len(body) > 0 /\ \A i \in 1..Len(body) : IsDigit(body[i])
        mag == IF wellFormed THEN DigitsValue(body, 0) ELSE 0
    IN IF wellFormed /\ mag >= 0
       THEN [ok |-> TRUE, value |-> IF neg THEN 0 - mag ELSE mag]
       ELSE IF wellFormed /\ neg /\ mag = -2
       THEN [ok |-> TRUE, value |-> (0 - IntMax) - 1]
       ELSE [ok |-> FALSE, value |-> 0]

Upper == <<"A","B","C","D","E","F","G","H","I","J","K","L","M",
           "N","O","P","Q","R","S","T","U","V","W","X","Y","Z">>
Lower == <<"a","b","c","d","e","f","g","h","i","j","k","l","m",
           "n","o","p","q","r","s","t","u","v","w","x","y","z">>

IsUpper(c) == \E i \in 1..26 : Upper[i] = c

toLowerChar(c) == IF IsUpper(c) THEN Lower[CHOOSE i \in 1..26 : Upper[i] = c] ELSE c

\* QString(property).replace(QRegularExpression("([A-Z])"), "-\\1").toLower()
RECURSIVE normalizeProperty(_)
normalizeProperty(s) ==
    IF s = Empty THEN Empty
    ELSE IF IsUpper(s[1])
         THEN <<"-", toLowerChar(s[1])>> \o normalizeProperty(Tail(s))
         ELSE <<s[1]>> \o normalizeProperty(Tail(s))

-----------------------------------------------------------------------------
(* String constants of the program *)

EMULATOR_DEVICE_MODEL == <<"d", "e", "v", "i", "c", "e", "-", "m", "o", "d", "e", "l">>

EMULATOR_ORIENTATION == <<"o", "r", "i", "e", "n", "t", "a", "t", "i", "o", "n">>

EMULATOR_DOWNSCALE == <<"d", "o", "w", "n", "s", "c", "a", "l", "e">>

EMULATOR_SSH_PORT == <<"s", "s", "h", ".", "p", "o", "r", "t">>

EMULATOR_SSH_TIMEOUT == <<"s", "s", "h", ".", "t", "i", "m", "e", "o", "u", "t">>

ENGINE_HOST_NAME == <<"h", "o", "s", "t", "-", "n", "a", "m", "e">>

ENGINE_BUILD_ENVIRONMENT_FILTER == <<"e", "n", "v", "i", "r", "o", "n", "m", "e", "n", "t", ".", "f", "o", "r", "w", "a", "r", "d">>

ENGINE_SSH_PORT == <<"s", "s", "h", ".", "p", "o", "r", "t">>

ENGINE_SSH_TIMEOUT == <<"s", "s", "h", ".", "t", "i", "m", "e", "o", "u", "t">>

ENGINE_DBUS_PORT == <<"d", "b", "u", "s", ".", "p", "o", "r", "t">>

WWW_PROXY_TYPE == <<"p", "r", "o", "x", "y">>

WWW_PROXY_SERVERS == <<"p", "r", "o", "x", "y", ".", "s", "e", "r", "v", "e", "r", "s">>

WWW_PROXY_EXCLUDES == <<"p", "r", "o", "x", "y", ".", "e", "x", "c", "l", "u", "d", "e", "s">>

VM_MEMORY_SIZE_MB == <<"v", "m", ".", "m", "e", "m", "o", "r", "y", "-", "s", "i", "z", "e">>

VM_SWAP_SIZE_MB == <<"v", "m", ".", "s", "w", "a", "p", "-", "s", "i", "z", "e">>

VM_CPU_COUNT == <<"v", "m", ".", "c", "p", "u", "-", "c", "o", "u", "n", "t">>

VM_STORAGE_SIZE_MB == <<"v", "m", ".", "s", "t", "o", "r", "a", "g", "e", "-", "s", "i", "z", "e">>

VM_FREE_STORAGE_SIZE_MB == <<"v", "m", ".", "f", "r", "e", "e", "-", "s", "t", "o", "r", "a", "g", "e", "-", "s", "i", "z", "e">>

WWW_PROXY_DISABLED == <<"d", "i", "s", "a", "b", "l", "e", "d">>

WWW_PROXY_AUTOMATIC == <<"a", "u", "t", "o", "m", "a", "t", "i", "c">>

WWW_PROXY_MANUAL == <<"m", "a", "n", "u", "a", "l">>

DEFAULT_SNAPSHOT_SUFFIX == <<"d", "e", "f", "a", "u", "l", "t">>

POOLED_SNAPSHOT_INFIX == <<".", "p", "o", "o", "l", ".">>

-----------------------------------------------------------------------------
(* The host and the SDK as the accessors query them *)

\* VirtualMachine::availableMemorySizeMb()
availableMemorySizeMb == 4096

\* VirtualMachine::availableCpuCount()
availableCpuCount == 8

PortMax == 65535

PrivilegedPortLimit == 1024

\* the device models Sdk::deviceModel(name) finds
DeviceModels == { <<"m", "A">>, <<"m", "B">> }

deviceModelIsValid(name) == name \in DeviceModels

\* QUrl::setHost / QUrl::fromUserInput reject text holding these characters
InvalidUrlChars == {"^", "%"}

urlIsValid(s) == \A i \in 1..Len(s) : s[i] \notin InvalidUrlChars

\* BuildEngineManager::defaultBuildHostName()
defaultBuildHostName == <<"h", "0">>

Vertical == "Vertical"
Horizontal == "Horizontal"

-----------------------------------------------------------------------------
(* PropertiesAccessor: the validators *)

Ignored == "Ignored"
Prepared == "Prepared"
Failed == "Failed"

PositiveIntExpected == "Positive integer expected"
NonNegativeIntExpected == "Non-negative integer expected"
PrivilegedPorts == "Privileged ports may not be used"
OneOfExpected == "One of ... expected"
NoErrorString == ""

valueTooBigMessage == "Value too big"
valueCannotBeDecreasedMessage == "Value cannot be decreased"
valueCannotBeIncreasedMessage == "Value cannot be increased"
valueEmptyMessage == "Unexpected empty string"
unknownPropertyMessage == "Unrecognized property"
readOnlyPropertyMessage == "Read-only property"
StepSmallerThanSize == "<step> cannot be smaller than <size>"
NoFreeStorageSize == "Failed to determine current free storage size"
NoSuchDeviceModel == "No such device model"
NotWellFormedHostName == "Not a well formed host name"
InvalidProxyType == "Invalid proxy type"
NotValidUrl == "Not a valid URL"
ProxyServersEmpty == "The value of proxy.servers must not be empty"
FailedToSetSome == "Failed to set some of the properties"
stopVmMessage == "Some of the changes cannot be applied while running. Please stop."
AssignmentExpected == "Assignment expected"

\* *out is written before the value is checked
PositiveInt(r) == [ok |-> r.ok /\ r.value > 0, out |-> r.value, err |-> PositiveIntExpected]

parsePositiveInt(string) == PositiveInt(toInt(string))

NonNegativeInt(r) ==
    [ok |-> r.ok /\ r.value >= 0, out |-> r.value, err |-> NonNegativeIntExpected]

parseNonNegativeInt(string) == NonNegativeInt(toInt(string))

\* the port parser without the test for privileged ports
PortNumber_AllowsPrivileged(old, r) ==
    IF ~r.ok THEN [ok |-> FALSE, out |-> old, err |-> r.err]
    ELSE IF r.out > PortMax THEN [ok |-> FALSE, out |-> old, err |-> valueTooBigMessage]
    ELSE [ok |-> TRUE, out |-> r.out % 65536, err |-> NoErrorString]

\* *out is written on success only; `old` is the value it held
PortNumber(old, r) ==
    IF ~r.ok THEN [ok |-> FALSE, out |-> old, err |-> r.err]
    ELSE IF r.out > PortMax THEN [ok |-> FALSE, out |-> old, err |-> valueTooBigMessage]
    ELSE IF r.out < PrivilegedPortLimit
         THEN [ok |-> FALSE, out |-> old, err |-> PrivilegedPorts]
    ELSE [ok |-> TRUE, out |-> r.out % 65536, err |-> NoErrorString]

parsePortNumber(old, string) == PortNumber(old, parsePositiveInt(string))

booleanDictionary == << <<TRUE, <<"y", "e", "s">> >>, <<FALSE, <<"n", "o">> >> >>

orientationDictionary ==
    << <<Vertical, <<"p", "o", "r", "t", "r", "a", "i", "t">> >>,
       <<Horizontal, <<"l", "a", "n", "d", "s", "c", "a", "p", "e">> >> >>

\* the lookup with the case of the letters ignored
parseWithDictionary_AnyCase(dictionary, old, string) ==
    LET hits == {i \in 1..Len(dictionary) :
                    dictionary[i][2] = [k \in 1..Len(string) |-> toLowerChar(string[k])]}
    IN IF hits = {} THEN [ok |-> FALSE, out |-> old, err |-> OneOfExpected]
       ELSE [ok |-> TRUE,
             out |-> dictionary[CHOOSE i \in hits : \A j \in hits : i <= j][1],
             err |-> NoErrorString]

\* std::find_if: the first entry whose text is `string`
parseWithDictionary(dictionary, old, string) ==
    LET hits == {i \in 1..Len(dictionary) : dictionary[i][2] = string}
    IN IF hits = {} THEN [ok |-> FALSE, out |-> old, err |-> OneOfExpected]
       ELSE [ok |-> TRUE,
             out |-> dictionary[CHOOSE i \in hits : \A j \in hits : i <= j][1],
             err |-> NoErrorString]

\* QTC_ASSERT(it != end, return {}): the empty string for a value not listed
showWithDictionary(dictionary, value) ==
    LET hits == {i \in 1..Len(dictionary) : dictionary[i][1] = value}
    IN IF hits = {} THEN Empty
       ELSE dictionary[CHOOSE i \in hits : \A j \in hits : i <= j][2]

parseBoolean(old, string) == parseWithDictionary(booleanDictionary, old, string)
showBoolean(value) == showWithDictionary(booleanDictionary, value)
parseOrientation(old, string) == parseWithDictionary(orientationDictionary, old, string)
showOrientation(value) == showWithDictionary(orientationDictionary, value)

PrepareOutcome(result, a, needsVmOff, err) ==
    [result |-> result, acc |-> a, needsVmOff |-> needsVmOff, error |-> err]

-----------------------------------------------------------------------------
(* VirtualMachinePropertiesAccessor::prepareSet *)

\* a parsed value stored into the member `field`; the integer parsers write the
\* member before they check the value (writeOnFail), the others on success only
Stage(a, field, r, writeOnFail, needsVmOff) ==
    IF r.ok THEN PrepareOutcome(Prepared, [a EXCEPT ![field] = r.out], needsVmOff,
                                NoErrorString)
    ELSE PrepareOutcome(Failed, IF writeOnFail THEN [a EXCEPT ![field] = r.out] ELSE a,
                        needsVmOff, r.err)

\* an outcome accepted so far is rejected when the value is out of bounds
Reject(outcome, outOfBounds, err) ==
    IF outcome.result = Prepared /\ outOfBounds
    THEN PrepareOutcome(Failed, outcome.acc, outcome.needsVmOff, err)
    ELSE outcome

MemoryBounded(outcome) ==
    Reject(outcome, outcome.acc.m_memorySizeMb > availableMemorySizeMb, valueTooBigMessage)

\* the memory size staged whatever the virtual machine is capable of
VmPrepareMemory_Writable(a, feats, value) ==
    MemoryBounded(Stage(a, "m_memorySizeMb", parsePositiveInt(value), TRUE, TRUE))

VmPrepareMemory(a, feats, value) ==
    IF "LimitMemorySize" \notin feats
    THEN PrepareOutcome(Failed, a, TRUE, readOnlyPropertyMessage)
    ELSE MemoryBounded(Stage(a, "m_memorySizeMb", parsePositiveInt(value), TRUE, TRUE))

SwapBounded(outcome) ==
    Reject(outcome, outcome.acc.m_swapSizeMb > outcome.acc.m_storageSizeMb,
           valueTooBigMessage)

VmPrepareSwap(a, value) ==
    SwapBounded(Stage(a, "m_swapSizeMb", parseNonNegativeInt(value), TRUE, TRUE))

\* the CPU count staged without the test against the host
CpuBounded_Unchecked(outcome) == outcome

CpuBounded(outcome) ==
    Reject(outcome, outcome.acc.m_cpuCount > availableCpuCount, valueTooBigMessage)

VmPrepareCpu(a, feats, value) ==
    IF "LimitMemorySize" \notin feats
    THEN PrepareOutcome(Failed, a, TRUE, readOnlyPropertyMessage)
    ELSE CpuBounded(Stage(a, "m_cpuCount", parsePositiveInt(value), TRUE, TRUE))

StorageBounded(outcome, lv, feats) ==
    Reject(Reject(outcome,
                  outcome.acc.m_storageSizeMb < lv.storageSizeMb
                      /\ "ShrinkStorageSize" \notin feats,
                  valueCannotBeDecreasedMessage),
           outcome.acc.m_storageSizeMb > lv.storageSizeMb /\ "GrowStorageSize" \notin feats,
           valueCannotBeIncreasedMessage)

VmPrepareStorage(a, lv, feats, value) ==
    StorageBounded(Stage(a, "m_storageSizeMb", parsePositiveInt(value), TRUE, TRUE),
                   lv, feats)

\* the <step> after the comma, parsed only when there is a comma past position 0
StepBounded(outcome) ==
    Reject(outcome, outcome.acc.m_incrementMb < outcome.acc.m_freeSizeMb,
           StepSmallerThanSize)

FreeStorageStep(sized, hasStep, stepText) ==
    IF sized.result # Prepared \/ ~hasStep THEN sized
    ELSE StepBounded(Stage(sized.acc, "m_incrementMb", parsePositiveInt(stepText),
                           TRUE, TRUE))

\* the comparison with the free size the virtual machine has now
FreeStorageNeeded(outcome, lv) ==
    IF outcome.result # Prepared THEN outcome
    ELSE IF lv.freeStorageSizeMb < 0
         THEN PrepareOutcome(Failed, outcome.acc, TRUE, NoFreeStorageSize)
    ELSE IF outcome.acc.m_freeSizeMb <= lv.freeStorageSizeMb
         THEN PrepareOutcome(Prepared, [outcome.acc EXCEPT !.m_freeSizeMb = 0], FALSE,
                             NoErrorString)
    ELSE outcome

FreeStorageSplit(a, lv, value, commaIndex, freeSize) ==
    IF ~endsWith(freeSize, "+")
    THEN PrepareOutcome(Failed, a, TRUE, valueCannotBeDecreasedMessage)
    ELSE FreeStorageNeeded(
             FreeStorageStep(
                 Stage(a, "m_freeSizeMb", parsePositiveInt(chop(freeSize, 1)), TRUE, TRUE),
                 commaIndex > 0, mid(value, commaIndex + 1)),
             lv)

\* the '+' looked for at the end of the whole value, step included
VmPrepareFreeStorage_WholeValue(a, lv, value) ==
    FreeStorageSplit(a, lv, value, indexOf(value, ","), value)

VmPrepareFreeStorage(a, lv, value) ==
    FreeStorageSplit(a, lv, value, indexOf(value, ","), left(value, indexOf(value, ",")))

VmPrepareSet(a, lv, feats, name, value) ==
    IF name = VM_MEMORY_SIZE_MB THEN VmPrepareMemory(a, feats, value)
    ELSE IF name = VM_SWAP_SIZE_MB /\ "SwapMemory" \in feats THEN VmPrepareSwap(a, value)
    ELSE IF name = VM_CPU_COUNT THEN VmPrepareCpu(a, feats, value)
    ELSE IF name = VM_STORAGE_SIZE_MB THEN VmPrepareStorage(a, lv, feats, value)
    ELSE IF name = VM_FREE_STORAGE_SIZE_MB THEN VmPrepareFreeStorage(a, lv, value)
    ELSE PrepareOutcome(Ignored, a, TRUE, unknownPropertyMessage)

-----------------------------------------------------------------------------
(* EmulatorPropertiesAccessor *)

EmulatorPrepareDeviceModel(a, value) ==
    IF value = Empty THEN PrepareOutcome(Failed, a, TRUE, valueEmptyMessage)
    ELSE IF ~deviceModelIsValid(value) THEN PrepareOutcome(Failed, a, TRUE, NoSuchDeviceModel)
    ELSE PrepareOutcome(Prepared, [a EXCEPT !.m_deviceModel = value], TRUE, NoErrorString)

EmulatorPrepareSetOther(a, name, value) ==
    IF name = EMULATOR_DEVICE_MODEL THEN EmulatorPrepareDeviceModel(a, value)
    ELSE IF name = EMULATOR_ORIENTATION
         THEN Stage(a, "m_orientation", parseOrientation(a.m_orientation, value), FALSE, TRUE)
    ELSE IF name = EMULATOR_DOWNSCALE
         THEN Stage(a, "m_downscale", parseBoolean(a.m_downscale, value), FALSE, TRUE)
    ELSE IF name = EMULATOR_SSH_PORT
         THEN Stage(a, "m_sshPort", parsePortNumber(a.m_sshPort, value), FALSE, TRUE)
    ELSE IF name = EMULATOR_SSH_TIMEOUT
         THEN Stage(a, "m_sshTimeout", parsePositiveInt(value), TRUE, TRUE)
    ELSE PrepareOutcome(Ignored, a, TRUE, unknownPropertyMessage)

\* `if (auto result = ...) return result;`: Ignored is 0 and falls through
EmulatorAfterVm(viaVm, name, value) ==
    IF viaVm.result # Ignored THEN viaVm
    ELSE EmulatorPrepareSetOther(viaVm.acc, name, value)

EmulatorPrepareSet(a, lv, feats, name, value) ==
    EmulatorAfterVm(VmPrepareSet(a, lv, feats, name, value), name, value)

-----------------------------------------------------------------------------
(* BuildEnginePropertiesAccessor *)

EnginePrepareHostName(a, value) ==
    IF value # Empty /\ ~urlIsValid(value)
    THEN PrepareOutcome(Failed, a, FALSE, NotWellFormedHostName)
    ELSE PrepareOutcome(Prepared, [a EXCEPT !.m_hostName = value, !.m_hostNameChanged = TRUE],
                        FALSE, NoErrorString)

\* *needsVmOff is false on entry and set for the two ports once they are parsed
PortStaged(outcome) ==
    IF outcome.result = Prepared
    THEN PrepareOutcome(Prepared, outcome.acc, TRUE, NoErrorString)
    ELSE outcome

EnginePrepareSetOther(a, name, value) ==
    IF name = ENGINE_HOST_NAME THEN EnginePrepareHostName(a, value)
    ELSE IF name = ENGINE_BUILD_ENVIRONMENT_FILTER
         THEN PrepareOutcome(Prepared,
                             [a EXCEPT !.m_buildEnvironmentFilter = split(value, " ")],
                             FALSE, NoErrorString)
    ELSE IF name = ENGINE_DBUS_PORT
         THEN PortStaged(Stage(a, "m_dBusPort", parsePortNumber(a.m_dBusPort, value),
                               FALSE, FALSE))
    ELSE IF name = ENGINE_SSH_PORT
         THEN PortStaged(Stage(a, "m_sshPort", parsePortNumber(a.m_sshPort, value),
                               FALSE, FALSE))
    ELSE IF name = ENGINE_SSH_TIMEOUT
         THEN Stage(a, "m_sshTimeout", parsePositiveInt(value), TRUE, FALSE)
    ELSE PrepareOutcome(Ignored, a, FALSE, unknownPropertyMessage)

EngineAfterVm(viaVm, name, value) ==
    IF viaVm.result # Ignored THEN viaVm
    ELSE EnginePrepareSetOther(viaVm.acc, name, value)

EnginePrepareSet(a, lv, feats, name, value) ==
    EngineAfterVm(VmPrepareSet(a, lv, feats, name, value), name, value)

-----------------------------------------------------------------------------
(* SdkPropertiesAccessor *)

AllValid(items) == \A i \in 1..Len(items) : urlIsValid(items[i])

validateUrls(urls) == AllValid(split(urls, " "))

SdkPrepareSet(a, name, value) ==
    IF name = WWW_PROXY_TYPE THEN
        IF value # WWW_PROXY_DISABLED /\ value # WWW_PROXY_AUTOMATIC
           /\ value # WWW_PROXY_MANUAL
        THEN PrepareOutcome(Failed, a, FALSE, InvalidProxyType)
        ELSE PrepareOutcome(Prepared, [a EXCEPT !.m_wwwProxyType = value], FALSE,
                            NoErrorString)
    ELSE IF name = WWW_PROXY_SERVERS THEN
        IF ~validateUrls(value) THEN PrepareOutcome(Failed, a, FALSE, NotValidUrl)
        ELSE PrepareOutcome(Prepared, [a EXCEPT !.m_wwwProxyServers = trimmed(value)],
                            FALSE, NoErrorString)
    ELSE IF name = WWW_PROXY_EXCLUDES THEN
        IF ~validateUrls(value) THEN PrepareOutcome(Failed, a, FALSE, NotValidUrl)
        ELSE PrepareOutcome(Prepared, [a EXCEPT !.m_wwwProxyExcludes = trimmed(value)],
                            FALSE, NoErrorString)
    ELSE PrepareOutcome(Ignored, a, FALSE, unknownPropertyMessage)

\* the cross-field check looking at the manual proxy only
SdkCanSet_ManualOnly(a) ==
    ~(a.m_wwwProxyType = WWW_PROXY_MANUAL /\ a.m_wwwProxyServers = Empty)

SdkCanSet(a) ==
    ~((a.m_wwwProxyType = WWW_PROXY_MANUAL \/ a.m_wwwProxyType = WWW_PROXY_AUTOMATIC)
      /\ a.m_wwwProxyServers = Empty)

\* PropertiesAccessor::canSet is overridden by the SDK accessor only
AccessorCanSet(k, a) == IF k = "sdk" THEN SdkCanSet(a) ELSE TRUE

AccessorPrepareSet(k, a, lv, feats, name, value) ==
    IF k = "emulator" THEN EmulatorPrepareSet(a, lv, feats, name, value)
    ELSE IF k = "engine" THEN EnginePrepareSet(a, lv, feats, name, value)
    ELSE SdkPrepareSet(a, name, value)

-----------------------------------------------------------------------------
(* The command lines explored: the arguments of `set` *)

\* assignments to the VM-level properties
VmAssignments ==
    { <<"v", "m", ".", "m", "e", "m", "o", "r", "y", "-", "s", "i", "z", "e", "=", "2", "0", "4", "8">>   \* vm.memory-size=2048
    , <<"v", "m", ".", "m", "e", "m", "o", "r", "y", "-", "s", "i", "z", "e", "=", "1", "0", "2", "4">>   \* vm.memory-size=1024
    , <<"v", "m", ".", "m", "e", "m", "o", "r", "y", "-", "s", "i", "z", "e", "=", "9", "9", "9", "9">>   \* vm.memory-size=9999
    , <<"v", "m", ".", "c", "p", "u", "-", "c", "o", "u", "n", "t", "=", "4">>   \* vm.cpu-count=4
    , <<"v", "m", ".", "c", "p", "u", "C", "o", "u", "n", "t", "=", "4">>   \* vm.cpuCount=4
    , <<"v", "m", ".", "C", "p", "u", "C", "o", "u", "n", "t", "=", "4">>   \* vm.CpuCount=4
    , <<"v", "m", ".", "c", "p", "u", "C", "o", "u", "n", "t", "=", "a", "b", "c">>   \* vm.cpuCount=abc
    , <<"v", "m", ".", "s", "w", "a", "p", "-", "s", "i", "z", "e", "=", "2", "5", "6">>   \* vm.swap-size=256
    , <<"v", "m", ".", "s", "t", "o", "r", "a", "g", "e", "-", "s", "i", "z", "e", "=", "2", "0", "0", "0", "0">>   \* vm.storage-size=20000
    , <<"v", "m", ".", "s", "t", "o", "r", "a", "g", "e", "-", "s", "i", "z", "e", "=", "5", "0", "0", "0">>   \* vm.storage-size=5000
    , <<"v", "m", ".", "f", "r", "e", "e", "-", "s", "t", "o", "r", "a", "g", "e", "-", "s", "i", "z", "e", "=", "5", "0", "0", "0", "+">>   \* vm.free-storage-size=5000+
    , <<"v", "m", ".", "f", "r", "e", "e", "-", "s", "t", "o", "r", "a", "g", "e", "-", "s", "i", "z", "e", "=", "5", "0", "0", "0">>   \* vm.free-storage-size=5000
    , <<"v", "m", ".", "f", "r", "e", "e", "-", "s", "t", "o", "r", "a", "g", "e", "-", "s", "i", "z", "e", "=", "1", "0", "0", "+">>   \* vm.free-storage-size=100+
    , <<"v", "m", ".", "f", "r", "e", "e", "-", "s", "t", "o", "r", "a", "g", "e", "-", "s", "i", "z", "e", "=", "5", "0", "0", "0", "+", ",", "3", "0", "0", "0">>   \* vm.free-storage-size=5000+,3000
    }

\* assignments to the emulator's own properties
EmulatorAssignments ==
    { <<"d", "e", "v", "i", "c", "e", "-", "m", "o", "d", "e", "l", "=", "m", "B">>   \* device-model=mB
    , <<"d", "e", "v", "i", "c", "e", "M", "o", "d", "e", "l", "=", "m", "B">>   \* deviceModel=mB
    , <<"d", "e", "v", "i", "c", "e", "-", "m", "o", "d", "e", "l", "=">>   \* device-model=
    , <<"o", "r", "i", "e", "n", "t", "a", "t", "i", "o", "n", "=", "l", "a", "n", "d", "s", "c", "a", "p", "e">>   \* orientation=landscape
    , <<"o", "r", "i", "e", "n", "t", "a", "t", "i", "o", "n", "=", "s", "i", "d", "e", "w", "a", "y", "s">>   \* orientation=sideways
    , <<"d", "o", "w", "n", "s", "c", "a", "l", "e", "=", "y", "e", "s">>   \* downscale=yes
    , <<"s", "s", "h", ".", "p", "o", "r", "t", "=", "2", "2", "2", "3">>   \* ssh.port=2223
    , <<"s", "s", "h", ".", "p", "o", "r", "t", "=", "8", "0">>   \* ssh.port=80
    , <<"s", "s", "h", ".", "t", "i", "m", "e", "o", "u", "t", "=", "3", "0">>   \* ssh.timeout=30
    }

\* assignments to the build engine's own properties
EngineAssignments ==
    { <<"h", "o", "s", "t", "-", "n", "a", "m", "e", "=", "h", "0">>   \* host-name=h0
    , <<"h", "o", "s", "t", "-", "n", "a", "m", "e", "=", "h", "1">>   \* host-name=h1
    , <<"h", "o", "s", "t", "N", "a", "m", "e", "=", "h", "1">>   \* hostName=h1
    , <<"e", "n", "v", "i", "r", "o", "n", "m", "e", "n", "t", ".", "f", "o", "r", "w", "a", "r", "d", "=", "F", "O", "O", " ", "B", "A", "R">>   \* environment.forward=FOO BAR
    , <<"s", "s", "h", ".", "p", "o", "r", "t", "=", "2", "2", "2", "3">>   \* ssh.port=2223
    , <<"s", "s", "h", ".", "p", "o", "r", "t", "=", "8", "0">>   \* ssh.port=80
    , <<"s", "s", "h", ".", "p", "o", "r", "t", "=", "2", "2", "2", "2">>   \* ssh.port=2222
    , <<"d", "b", "u", "s", ".", "p", "o", "r", "t", "=", "7", "7", "7", "8">>   \* dbus.port=7778
    , <<"d", "b", "u", "s", ".", "p", "o", "r", "t", "=", "7", "0", "0", "0", "0">>   \* dbus.port=70000
    , <<"s", "s", "h", ".", "t", "i", "m", "e", "o", "u", "t", "=", "3", "0">>   \* ssh.timeout=30
    }

\* assignments to the SDK proxy properties
SdkAssignments ==
    { <<"p", "r", "o", "x", "y", "=", "m", "a", "n", "u", "a", "l">>   \* proxy=manual
    , <<"p", "r", "o", "x", "y", "=", "d", "i", "s", "a", "b", "l", "e", "d">>   \* proxy=disabled
    , <<"p", "r", "o", "x", "y", "=", "a", "u", "t", "o", "m", "a", "t", "i", "c">>   \* proxy=automatic
    , <<"p", "r", "o", "x", "y", "=", "b", "o", "g", "u", "s">>   \* proxy=bogus
    , <<"p", "r", "o", "x", "y", ".", "s", "e", "r", "v", "e", "r", "s", "=", "p", "1">>   \* proxy.servers=p1
    , <<"p", "r", "o", "x", "y", ".", "s", "e", "r", "v", "e", "r", "s", "=">>   \* proxy.servers=
    , <<"p", "r", "o", "x", "y", ".", "e", "x", "c", "l", "u", "d", "e", "s", "=", "e", "x">>   \* proxy.excludes=ex
    }

\* arguments that are no assignment, and an unknown property
MalformedAssignments ==
    { <<"=", "5">>   \* =5
    , <<"n", "o", "v", "a", "l", "u", "e">>   \* novalue
    , <<"f", "o", "o", "=", "1">>   \* foo=1
    }

\* the arguments each command accepts on its command line
Assignments(k) ==
    IF k = "emulator" THEN VmAssignments \cup EmulatorAssignments \cup MalformedAssignments
    ELSE IF k = "engine" THEN VmAssignments \cup EngineAssignments \cup MalformedAssignments
    ELSE SdkAssignments \cup MalformedAssignments

\* the longest list of assignments on one command line
MaxBatch == 2

-----------------------------------------------------------------------------
(* The state before the command runs *)

AllFeatures == {"LimitMemorySize", "SwapMemory", "ShrinkStorageSize", "GrowStorageSize",
                "OptionalHeadless"}

\* the capability sets of the two virtual machine backends
FeatureSets == {AllFeatures, {"OptionalHeadless"}}

InitialLive ==
    [memorySizeMb |-> 1024, swapSizeMb |-> 512, cpuCount |-> 2, storageSizeMb |-> 10000,
     freeStorageSizeMb |-> 1000, lockedDown |-> FALSE,
     deviceModel |-> <<"m", "A">>, orientation |-> Vertical, viewScaled |-> FALSE,
     sshPort |-> 2222, sshTimeout |-> 10, dBusPort |-> 7777,
     customBuildHostName |-> Empty, buildEnvironmentFilter |-> <<>>,
     wwwProxyType |-> WWW_PROXY_DISABLED, wwwProxyServers |-> Empty,
     wwwProxyExcludes |-> Empty]

\* BuildEngineManager::effectiveBuildHostName()
effectiveBuildHostName(lv) ==
    IF lv.customBuildHostName = Empty THEN defaultBuildHostName ELSE lv.customBuildHostName

\* the constructors of the accessors copy the current values
NewAccessor(lv) ==
    [m_memorySizeMb |-> lv.memorySizeMb, m_swapSizeMb |-> lv.swapSizeMb,
     m_cpuCount |-> lv.cpuCount, m_storageSizeMb |-> lv.storageSizeMb,
     m_freeSizeMb |-> 0, m_incrementMb |-> 0,
     m_deviceModel |-> lv.deviceModel, m_orientation |-> lv.orientation,
     m_downscale |-> lv.viewScaled, m_sshPort |-> lv.sshPort,
     m_sshTimeout |-> lv.sshTimeout, m_dBusPort |-> lv.dBusPort,
     m_hostName |-> effectiveBuildHostName(lv), m_hostNameChanged |-> FALSE,
     m_buildEnvironmentFilter |-> lv.buildEnvironmentFilter,
     m_wwwProxyType |-> lv.wwwProxyType, m_wwwProxyServers |-> lv.wwwProxyServers,
     m_wwwProxyExcludes |-> lv.wwwProxyExcludes]

NoRequest == [kind |-> "none", acks |-> <<>>, notice |-> FALSE]

\* the task as constructed, before the first assignment is read
InitTask ==
    /\ live = InitialLive
    /\ acc = NewAccessor(InitialLive)
    /\ m_needsVmOff = FALSE
    /\ lockDownOk = FALSE
    /\ setOk = FALSE
    /\ pc = "prepare"
    /\ nPrepared = 0
    /\ prepareFailed = FALSE
    /\ log = <<>>
    /\ errorString = NoErrorString
    /\ exitCode = "unset"
    /\ exitStatus = "unset"
    /\ notices = 0
    /\ lastRequest = NoRequest
    /\ inWait = FALSE
    /\ argument = Empty

InitProps ==
    /\ kind \in {"emulator", "engine", "sdk"}
    /\ features \in FeatureSets
    /\ vmRunning \in BOOLEAN
    /\ autoStop \in BOOLEAN
    /\ InitTask

-----------------------------------------------------------------------------
(* BuiltinWorker::setProperties: the loop over the assignments *)

\* where the loop goes after task->prepareSet(): on to the next assignment, or out
LoopAfter_Continue(prepared) == "prepare"

LoopAfter(prepared) == IF prepared THEN "prepare" ELSE "done"

\* SetPropertiesTask::prepareSet: m_needsVmOff |= needsVmOff, on success only
TaskNeedsVmOff(old, outcome) ==
    IF outcome.result # Prepared THEN old ELSE (old \/ outcome.needsVmOff)

\* one iteration of the loop, for the argument `assignment` split at `splitAt`
PrepareSplit(splitAt, property, normalizedProperty, outcome) ==
    IF splitAt <= 0
    THEN /\ errorString' = AssignmentExpected
         /\ exitStatus' = "BadUsage"
         /\ pc' = "done"
         /\ UNCHANGED <<acc, m_needsVmOff, exitCode, notices, nPrepared, prepareFailed>>
    ELSE /\ acc' = outcome.acc
         /\ m_needsVmOff' = TaskNeedsVmOff(m_needsVmOff, outcome)
         /\ pc' = LoopAfter(outcome.result = Prepared)
         /\ nPrepared' = nPrepared + 1
         /\ prepareFailed' = (prepareFailed \/ outcome.result # Prepared)
         /\ IF outcome.result = Prepared
            THEN /\ notices' = IF normalizedProperty # property
                               THEN notices + 1 ELSE notices
                 /\ UNCHANGED <<errorString, exitCode, exitStatus>>
            ELSE /\ errorString' = outcome.error
                 /\ exitCode' = "EXIT_FAILURE"
                 /\ exitStatus' = "NormalExit"
                 /\ UNCHANGED notices

\* the property looked up as it was typed
PrepareNamed_AsTyped(splitAt, property, value) ==
    PrepareSplit(splitAt, property, property,
                 AccessorPrepareSet(kind, acc, live, features, property, value))

PrepareNamed(splitAt, property, value) ==
    PrepareSplit(splitAt, property, normalizeProperty(property),
                 AccessorPrepareSet(kind, acc, live, features, normalizeProperty(property),
                                    value))

Prepare(assignment) ==
    /\ pc = "prepare"
    /\ nPrepared < MaxBatch
    /\ argument' = assignment
    /\ PrepareNamed(indexOf(assignment, "="),
                    left(assignment, indexOf(assignment, "=")),
                    mid(assignment, indexOf(assignment, "=") + 1))
    /\ UNCHANGED <<kind, features, vmRunning, autoStop, live, lockDownOk, setOk, log,
                   lastRequest, inWait>>

-----------------------------------------------------------------------------
(* SetPropertiesTask::set *)

Call(op, ok, staged, current) ==
    [op |-> op, ok |-> ok, staged |-> staged, current |-> current]

Note(op) == Call(op, TRUE, Empty, Empty)

MustAskToStop_Never(needsVmOff, auto, running) == FALSE

\* the branch that refuses to stop a running virtual machine
MustAskToStop(needsVmOff, auto, running) == needsVmOff /\ ~auto /\ running

FirstStep(k) == IF k = "sdk" THEN "sdk.proxy" ELSE "vm.memory"

\* the tail of set(): the restore request, exited(), and back in setProperties
Leave_NoRestore(ok, locked, calls) == Append(calls, Note("exited"))

Leave_NoExit(ok, locked, calls) ==
    IF locked THEN Append(calls, Note("lockDown(false)")) ELSE calls

Leave(ok, locked, calls) ==
    IF locked
    THEN Append(Append(calls, Note("lockDown(false)")), Note("exited"))
    ELSE Append(calls, Note("exited"))

ExitCodeOf(ok) == IF ok THEN "EXIT_SUCCESS" ELSE "EXIT_FAILURE"

\* canSet(), started(), and the decision on stopping the virtual machine
StartSet ==
    /\ pc = "prepare"
    /\ nPrepared >= 1
    /\ IF ~AccessorCanSet(kind, acc)
       THEN /\ errorString' = ProxyServersEmpty
            /\ exitCode' = "EXIT_FAILURE"
            /\ exitStatus' = "NormalExit"
            /\ pc' = "done"
            /\ UNCHANGED <<log, inWait>>
       ELSE IF MustAskToStop(m_needsVmOff, autoStop, vmRunning)
       THEN /\ errorString' = stopVmMessage
            /\ log' = Leave(FALSE, FALSE, Append(log, Note("started")))
            /\ exitCode' = "EXIT_FAILURE"
            /\ exitStatus' = "NormalExit"
            /\ pc' = "done"
            /\ UNCHANGED inWait
       ELSE /\ log' = Append(log, Note("started"))
            /\ pc' = IF m_needsVmOff THEN "lockDown" ELSE FirstStep(kind)
            /\ inWait' = m_needsVmOff
            /\ UNCHANGED <<errorString, exitCode, exitStatus>>
    /\ setOk' = TRUE
    /\ UNCHANGED <<kind, features, vmRunning, autoStop, live, acc, m_needsVmOff, lockDownOk,
                   nPrepared, prepareFailed, notices, lastRequest>>

\* execAsynchronous(std::tie(lockDownOk), &VirtualMachine::lockDown, vm, true) returns
LockDownDone ==
    /\ pc = "lockDown"
    /\ \E ok \in BOOLEAN :
        /\ lockDownOk' = ok
        /\ IF ok
           THEN /\ log' = Append(log, Call("lockDown(true)", TRUE, Empty, Empty))
                /\ live' = [live EXCEPT !.lockedDown = TRUE]
                /\ vmRunning' = FALSE
                /\ pc' = FirstStep(kind)
                /\ UNCHANGED <<exitCode, exitStatus>>
           ELSE /\ log' = Leave(FALSE, FALSE,
                                Append(log, Call("lockDown(true)", FALSE, Empty, Empty)))
                /\ exitCode' = "EXIT_FAILURE"
                /\ exitStatus' = "NormalExit"
                /\ pc' = "done"
                /\ UNCHANGED <<live, vmRunning>>
    /\ inWait' = FALSE
    /\ UNCHANGED <<kind, features, autoStop, acc, m_needsVmOff, setOk, nPrepared,
                   prepareFailed, errorString, notices, lastRequest>>

\* one `if (staged != current) { execAsynchronous(setter); ok &= stepOk; }` block
AsyncStep(here, next, differs, op, staged, current, liveOnOk) ==
    /\ pc = here
    /\ IF differs
       THEN \E stepOk \in BOOLEAN :
               /\ log' = Append(log, Call(op, stepOk, staged, current))
               /\ live' = IF stepOk THEN liveOnOk ELSE live
               /\ setOk' = (setOk /\ stepOk)
               /\ inWait' = TRUE
       ELSE /\ UNCHANGED <<log, live, setOk>>
            /\ inWait' = FALSE
    /\ pc' = next
    /\ UNCHANGED <<kind, features, vmRunning, autoStop, acc, m_needsVmOff, lockDownOk,
                   nPrepared, prepareFailed, errorString, exitCode, exitStatus, notices,
                   lastRequest>>

\* one block that calls a setter without a result
SyncStep(here, next, invoked, op, staged, current, liveAfter) ==
    /\ pc = here
    /\ IF invoked
       THEN /\ log' = Append(log, Call(op, TRUE, staged, current))
            /\ live' = liveAfter
       ELSE UNCHANGED <<log, live>>
    /\ inWait' = FALSE
    /\ pc' = next
    /\ UNCHANGED <<kind, features, vmRunning, autoStop, acc, m_needsVmOff, lockDownOk, setOk,
                   nPrepared, prepareFailed, errorString, exitCode, exitStatus, notices,
                   lastRequest>>

-----------------------------------------------------------------------------
(* VirtualMachinePropertiesAccessor::set *)

Differs_Always(staged, current) == TRUE

\* the comparison guarding each setter
Differs(staged, current) == staged # current

SetMemorySizeMb ==
    AsyncStep("vm.memory", "vm.swap", Differs(acc.m_memorySizeMb, live.memorySizeMb),
              "setMemorySizeMb", acc.m_memorySizeMb, live.memorySizeMb,
              [live EXCEPT !.memorySizeMb = acc.m_memorySizeMb])

SetSwapSizeMb ==
    AsyncStep("vm.swap", "vm.cpu",
              Differs(acc.m_swapSizeMb, live.swapSizeMb) /\ "SwapMemory" \in features,
              "setSwapSizeMb", acc.m_swapSizeMb, live.swapSizeMb,
              [live EXCEPT !.swapSizeMb = acc.m_swapSizeMb])

SetCpuCount ==
    AsyncStep("vm.cpu", "vm.storage", Differs(acc.m_cpuCount, live.cpuCount),
              "setCpuCount", acc.m_cpuCount, live.cpuCount,
              [live EXCEPT !.cpuCount = acc.m_cpuCount])

SetStorageSizeMb ==
    AsyncStep("vm.storage", "vm.reserve", Differs(acc.m_storageSizeMb, live.storageSizeMb),
              "setStorageSizeMb", acc.m_storageSizeMb, live.storageSizeMb,
              [live EXCEPT !.storageSizeMb = acc.m_storageSizeMb])

\* what set() returns after reserveStorageSizeMb: `return stepOk;`
ReserveResult(ok, stepOk) == stepOk

\* `m_vmAccessor->set() && setOthers()`: the step after the VM-level part
AfterVmSet(k, vmOk) ==
    IF ~vmOk THEN "finish"
    ELSE IF k = "emulator" THEN "emulator.display" ELSE "engine.hostName"

\* the last block of the VM-level set(), and its return to the caller
ReserveStorageSizeMb ==
    /\ pc = "vm.reserve"
    /\ IF acc.m_freeSizeMb > 0
       THEN \E stepOk \in BOOLEAN :
               /\ log' = Append(log, Call("reserveStorageSizeMb", stepOk,
                                          acc.m_freeSizeMb, live.freeStorageSizeMb))
               /\ live' = IF stepOk
                          THEN [live EXCEPT !.freeStorageSizeMb = acc.m_freeSizeMb]
                          ELSE live
               /\ setOk' = ReserveResult(setOk, stepOk)
               /\ pc' = AfterVmSet(kind, ReserveResult(setOk, stepOk))
               /\ inWait' = TRUE
       ELSE /\ UNCHANGED <<log, live, setOk>>
            /\ pc' = AfterVmSet(kind, setOk)
            /\ inWait' = FALSE
    /\ UNCHANGED <<kind, features, vmRunning, autoStop, acc, m_needsVmOff, lockDownOk,
                   nPrepared, prepareFailed, errorString, exitCode, exitStatus, notices,
                   lastRequest>>

-----------------------------------------------------------------------------
(* EmulatorPropertiesAccessor::setOthers *)

SetDisplayProperties ==
    AsyncStep("emulator.display", "emulator.sshPort",
              Differs(<<acc.m_deviceModel, acc.m_orientation, acc.m_downscale>>,
                      <<live.deviceModel, live.orientation, live.viewScaled>>),
              "setDisplayProperties",
              <<acc.m_deviceModel, acc.m_orientation, acc.m_downscale>>,
              <<live.deviceModel, live.orientation, live.viewScaled>>,
              [live EXCEPT !.deviceModel = acc.m_deviceModel,
                           !.orientation = acc.m_orientation,
                           !.viewScaled = acc.m_downscale])

EmulatorSetSshPort ==
    AsyncStep("emulator.sshPort", "emulator.sshTimeout",
              Differs(acc.m_sshPort, live.sshPort),
              "Emulator::setSshPort", acc.m_sshPort, live.sshPort,
              [live EXCEPT !.sshPort = acc.m_sshPort])

EmulatorSetSshTimeout ==
    SyncStep("emulator.sshTimeout", "finish", Differs(acc.m_sshTimeout, live.sshTimeout),
             "setSshParameters", acc.m_sshTimeout, live.sshTimeout,
             [live EXCEPT !.sshTimeout = acc.m_sshTimeout])

-----------------------------------------------------------------------------
(* BuildEnginePropertiesAccessor::setOthers *)

SetCustomBuildHostName ==
    SyncStep("engine.hostName", "engine.environment", acc.m_hostNameChanged,
             "setCustomBuildHostName", acc.m_hostName, effectiveBuildHostName(live),
             [live EXCEPT !.customBuildHostName = acc.m_hostName])

SetBuildEnvironmentFilter ==
    SyncStep("engine.environment", "engine.sshPort", TRUE,
             "setBuildEnvironmentFilter", acc.m_buildEnvironmentFilter,
             live.buildEnvironmentFilter,
             [live EXCEPT !.buildEnvironmentFilter = acc.m_buildEnvironmentFilter])

EngineSetSshPort ==
    AsyncStep("engine.sshPort", "engine.sshTimeout", Differs(acc.m_sshPort, live.sshPort),
              "BuildEngine::setSshPort", acc.m_sshPort, live.sshPort,
              [live EXCEPT !.sshPort = acc.m_sshPort])

EngineSetSshTimeout ==
    SyncStep("engine.sshTimeout", "engine.dBusPort",
             Differs(acc.m_sshTimeout, live.sshTimeout),
             "setSshParameters", acc.m_sshTimeout, live.sshTimeout,
             [live EXCEPT !.sshTimeout = acc.m_sshTimeout])

SetDBusPort ==
    AsyncStep("engine.dBusPort", "finish", Differs(acc.m_dBusPort, live.dBusPort),
              "setDBusPort", acc.m_dBusPort, live.dBusPort,
              [live EXCEPT !.dBusPort = acc.m_dBusPort])

-----------------------------------------------------------------------------
(* SdkPropertiesAccessor::set *)

SetWwwProxy ==
    /\ SyncStep("sdk.proxy", "finish",
                Differs(<<acc.m_wwwProxyType, acc.m_wwwProxyServers, acc.m_wwwProxyExcludes>>,
                        <<live.wwwProxyType, live.wwwProxyServers, live.wwwProxyExcludes>>),
                "setWwwProxy",
                <<acc.m_wwwProxyType, acc.m_wwwProxyServers, acc.m_wwwProxyExcludes>>,
                <<live.wwwProxyType, live.wwwProxyServers, live.wwwProxyExcludes>>,
                [live EXCEPT !.wwwProxyType = acc.m_wwwProxyType,
                             !.wwwProxyServers = acc.m_wwwProxyServers,
                             !.wwwProxyExcludes = acc.m_wwwProxyExcludes])

-----------------------------------------------------------------------------
(* SetPropertiesTask::set, after m_accessor->set() has returned *)

Finish ==
    /\ pc = "finish"
    /\ errorString' = IF setOk THEN errorString ELSE FailedToSetSome
    /\ log' = Leave(setOk, lockDownOk, log)
    /\ exitCode' = ExitCodeOf(setOk)
    /\ exitStatus' = "NormalExit"
    /\ pc' = "done"
    /\ inWait' = FALSE
    /\ UNCHANGED <<kind, features, vmRunning, autoStop, live, acc, m_needsVmOff, lockDownOk,
                   setOk, nPrepared, prepareFailed, notices, lastRequest>>

-----------------------------------------------------------------------------
(* The supervisor: requests delivered while the task waits in the reactor *)

TaskRegistered ==
    /\ \E i \in 1..Len(log) : log[i].op = "started"
    /\ \A i \in 1..Len(log) : log[i].op # "exited"

Acks_None(request) == <<>>

\* the end* calls each begin* handler makes before it returns
Acks(request) ==
    IF request = "terminate" THEN <<"endTerminate">>
    ELSE IF request = "stop" THEN <<"endStop">>
    ELSE <<"endContinue">>

Begin_Interrupting(request) ==
    /\ TaskRegistered
    /\ inWait
    /\ lastRequest' = [kind |-> request, acks |-> Acks(request),
                       notice |-> (request = "terminate")]
    /\ pc' = "finish"
    /\ UNCHANGED <<kind, features, vmRunning, autoStop, live, acc, m_needsVmOff, lockDownOk,
                   setOk, nPrepared, prepareFailed, log, errorString, exitCode,
                   exitStatus, notices, inWait>>

Begin(request) ==
    /\ TaskRegistered
    /\ inWait
    /\ lastRequest' = [kind |-> request, acks |-> Acks(request),
                       notice |-> (request = "terminate")]
    /\ UNCHANGED <<kind, features, vmRunning, autoStop, live, acc, m_needsVmOff, lockDownOk,
                   setOk, pc, nPrepared, prepareFailed, log, errorString, exitCode,
                   exitStatus, notices, inWait>>

beginTerminate == Begin("terminate")
beginStop == Begin("stop")
beginContinue == Begin("continue")

-----------------------------------------------------------------------------
(* BatchComposer, and the asynchronous operations of the build engine that
   report through a completion functor *)

Contexts == {"c1", "c2"}
MaxCalls == 1
MaxQueued == 2

NoContext == "none"

\* what the completion handlers store, before any of them ran
InitialEngineProps ==
    [sshPort |-> 2222, dBusPort |-> 7777, sharedSrcPath |-> "src", dBusNonce |-> "none"]

\* VirtualMachinePrivate::cachedInfo() after a refresh: unchanged, or moved
CachedInfos ==
    {[sshPort |-> 2222, dBusPort |-> 7777, sharedSrc |-> "src"],
     [sshPort |-> 2223, dBusPort |-> 7778, sharedSrc |-> "src2"]}

\* a call of an asynchronous operation: its context, where it stands, whether it reports through a check point, and how often
\* its functor was invoked, with what
AsyncCall(op, context, phase) ==
    [op |-> op, context |-> context, phase |-> phase,
     checkPoint |-> (phase = "queued"), fired |-> 0, result |-> "none"]

\* the bool a functor is handed
Answer(ok) == IF ok THEN "true" ELSE "false"

\* functor(result)
Invoke(call, result) ==
    [call EXCEPT !.fired = @ + 1, !.result = result, !.phase = "completed"]

\* the mutant of the guarded invocation: the functor is invoked twice
InvokeGuarded_Twice(call, result, alive) ==
    IF call.context \in alive
    THEN Invoke(Invoke(call, result), result)
    ELSE [call EXCEPT !.phase = "completed"]

\* if (context_) functor(result);
InvokeGuarded(call, result, alive) ==
    IF call.context \in alive
    THEN Invoke(call, result)
    ELSE [call EXCEPT !.phase = "completed"]

\* ---- the composer ----

StepEnqueued(id) == [ev |-> "enqueued", id |-> id]
StepStarted(id) == [ev |-> "started", id |-> id]
StepFinished(id) == [ev |-> "finished", id |-> id]

\* steps are numbered in the order they are enqueued
NextId(queueLog) ==
    Cardinality({i \in 1..Len(queueLog) : queueLog[i].ev = "enqueued"}) + 1

\* a queued command runner
Runner(id) ==
    [id |-> id, step |-> "runner", context |-> NoContext, call |-> 0,
     result |-> "none", running |-> FALSE]

\* a queued check point: the callback of a call, bound to its result
CheckPoint(id, context, call, result) ==
    [id |-> id, step |-> "checkPoint", context |-> context, call |-> call,
     result |-> result, running |-> FALSE]

InFlight(queue) == \E i \in 1..Len(queue) : queue[i].running

\* the step of a check point: its callback, skipped when the context is gone
CheckPointRun(allCalls, step, alive) ==
    [allCalls EXCEPT ![step.call] = InvokeGuarded(@, step.result, alive)]

\* start the head of the queue when nothing is in flight; a check point is
\* over as soon as it started, and the one behind it follows
RECURSIVE StartNext(_, _)
StartNext(s, alive) ==
    IF s.queue = <<>> \/ InFlight(s.queue)
    THEN s
    ELSE IF s.queue[1].step = "runner"
         THEN [s EXCEPT !.queue[1].running = TRUE,
                        !.log = Append(@, StepStarted(s.queue[1].id))]
         ELSE StartNext([queue |-> Tail(s.queue),
                         log |-> s.log \o <<StepStarted(s.queue[1].id),
                                            StepFinished(s.queue[1].id)>>,
                         calls |-> CheckPointRun(s.calls, s.queue[1], alive)],
                        alive)

\* the mutant of enqueue: the step starts at once, whatever is in flight
enqueue_StartsAtOnce(s, step, alive) ==
    IF step.step = "runner"
    THEN [s EXCEPT !.queue = Append(@, [step EXCEPT !.running = TRUE]),
                   !.log = @ \o <<StepEnqueued(step.id), StepStarted(step.id)>>]
    ELSE [queue |-> s.queue,
          log |-> s.log \o <<StepEnqueued(step.id), StepStarted(step.id), StepFinished(step.id)>>,
          calls |-> CheckPointRun(s.calls, step, alive)]

\* BatchComposer::enqueue(op)
enqueue(s, step, alive) ==
    StartNext([s EXCEPT !.queue = Append(@, step),
                        !.log = Append(@, StepEnqueued(step.id))],
              alive)

\* BatchComposer::enqueueCheckPoint(context, callback)
enqueueCheckPoint(s, context, call, result, alive) ==
    enqueue(s, CheckPoint(NextId(s.log), context, call, result), alive)

\* the mutant of the completion: the next step is not started when it is a
\* check point whose context is gone
Dequeued_StallsOnLostContext(s, i, alive) ==
    IF Len(s.queue) > 1 /\ i = 1 /\ s.queue[2].step = "checkPoint"
           /\ s.queue[2].context \notin alive
    THEN [s EXCEPT !.queue = Tail(@), !.log = Append(@, StepFinished(s.queue[1].id))]
    ELSE StartNext([s EXCEPT !.queue = SubSeq(@, 1, i - 1) \o SubSeq(@, i + 1, Len(@)),
                             !.log = Append(@, StepFinished(s.queue[i].id))],
                   alive)

\* on completion an operation dequeues itself and starts the next
Dequeued(s, i, alive) ==
    StartNext([s EXCEPT !.queue = SubSeq(@, 1, i - 1) \o SubSeq(@, i + 1, Len(@)),
                        !.log = Append(@, StepFinished(s.queue[i].id))],
              alive)

\* ---- the state the operations work on ----

Composer == [queue |-> m_queue, log |-> batchLog, calls |-> asyncCalls]

Called(call) == [queue |-> m_queue, log |-> batchLog, calls |-> Append(asyncCalls, call)]

ComposerCommit(s) ==
    /\ m_queue' = s.queue
    /\ batchLog' = s.log
    /\ asyncCalls' = s.calls

IdleBatch ==
    /\ liveContexts = Contexts
    /\ asyncCalls = <<>>
    /\ m_queue = <<>>
    /\ batchLog = <<>>
    /\ engineProps = InitialEngineProps

\* the calls whose operation has not completed
Pending(op) ==
    {i \in 1..Len(asyncCalls) : asyncCalls[i].op = op /\ asyncCalls[i].phase = "running"}

\* an operation handed to the virtual machine, to complete later
StartOperation(op, context) ==
    /\ Len(asyncCalls) < MaxCalls
    /\ asyncCalls' = Append(asyncCalls, AsyncCall(op, context, "running"))
    /\ UNCHANGED <<liveContexts, m_queue, batchLog, engineProps>>

SetterFinished_StoresAnyway(i, ok, stored) ==
    /\ engineProps' = stored
    /\ asyncCalls' = [asyncCalls EXCEPT ![i] = InvokeGuarded(@, Answer(ok), liveContexts)]
    /\ UNCHANGED <<liveContexts, m_queue, batchLog>>

\* the completion handler of a setter: store the value when the virtual
\* machine took it, then report
SetterFinished(i, ok, stored) ==
    /\ engineProps' = IF ok THEN stored ELSE engineProps
    /\ asyncCalls' = [asyncCalls EXCEPT ![i] = InvokeGuarded(@, Answer(ok), liveContexts)]
    /\ UNCHANGED <<liveContexts, m_queue, batchLog>>

\* ---- BuildEngine ----

\* BuildEngine::setSharedSrcPath: the call
setSharedSrcPath(context) == StartOperation("setSharedSrcPath", context)

\* BuildEngine::setSharedSrcPath: setSharedPath completed
setSharedSrcPathFinished(i, ok) ==
    /\ i \in Pending("setSharedSrcPath")
    /\ SetterFinished(i, ok, [engineProps EXCEPT !.sharedSrcPath = "src2"])

\* BuildEngine::setSshPort: the call
setSshPort(context) == StartOperation("setSshPort", context)

\* BuildEngine::setSshPort: setReservedPortForwarding completed
setSshPortFinished(i, ok) ==
    /\ i \in Pending("setSshPort")
    /\ SetterFinished(i, ok, [engineProps EXCEPT !.sshPort = 2223])

\* BuildEngine::setDBusPort: the call
setDBusPort(context) == StartOperation("setDBusPort", context)

\* BuildEngine::setDBusPort: setReservedPortForwarding completed
setDBusPortFinished(i, ok) ==
    /\ i \in Pending("setDBusPort")
    /\ SetterFinished(i, ok, [engineProps EXCEPT !.dBusPort = 7778])

\* BuildEngine::importPrivateGpgKey: the call; without GnuPG the failure is
\* known at once and reported through a check point
importPrivateGpgKey(gpgAvailable, context) ==
    /\ Len(asyncCalls) < MaxCalls
    /\ IF gpgAvailable
       THEN /\ asyncCalls' = Append(asyncCalls, AsyncCall("importPrivateGpgKey", context, "running"))
            /\ UNCHANGED <<m_queue, batchLog>>
       ELSE ComposerCommit(enqueueCheckPoint(
                Called(AsyncCall("importPrivateGpgKey", context, "queued")),
                context, Len(asyncCalls) + 1, Answer(FALSE), liveContexts))
    /\ UNCHANGED <<liveContexts, engineProps>>

\* BuildEngine::importPrivateGpgKey: exportSecretKey completed
importPrivateGpgKeyFinished(i, ok) ==
    /\ i \in Pending("importPrivateGpgKey")
    /\ asyncCalls' = [asyncCalls EXCEPT ![i] = InvokeGuarded(@, Answer(ok), liveContexts)]
    /\ UNCHANGED <<liveContexts, m_queue, batchLog, engineProps>>

\* ---- BuildEnginePrivate ----

\* what updateVmProperties stores from the refreshed configuration
VmPropertiesStored(props, info) ==
    [props EXCEPT !.sharedSrcPath = info.sharedSrc, !.sshPort = info.sshPort,
                  !.dBusPort = info.dBusPort]

\* BuildEnginePrivate::updateVmProperties: the call
updateVmProperties(context) == StartOperation("updateVmProperties", context)

\* BuildEnginePrivate::updateVmProperties: refreshConfiguration completed
updateVmPropertiesFinished(i, ok, info) ==
    /\ i \in Pending("updateVmProperties")
    /\ engineProps' = IF ok THEN VmPropertiesStored(engineProps, info) ELSE engineProps
    /\ asyncCalls' = [asyncCalls EXCEPT ![i] = InvokeGuarded(@, Answer(ok), liveContexts)]
    /\ UNCHANGED <<liveContexts, m_queue, batchLog>>

\* the runners handed to the composer so far: the steps that are no check point
RunnersEnqueued ==
    NextId(batchLog) - 1
        - Cardinality({i \in 1..Len(asyncCalls) : asyncCalls[i].checkPoint})

\* BuildEnginePrivate::fetchDBusNonce: the runner is handed to the composer
fetchDBusNonce ==
    /\ RunnersEnqueued < MaxQueued
    /\ ComposerCommit(enqueue(Composer, Runner(NextId(batchLog)), liveContexts))
    /\ UNCHANGED <<liveContexts, engineProps>>

\* the runner in flight finishes; CommandRunner::success saves the nonce
runnerFinished(i, ok) ==
    /\ i \in 1..Len(m_queue)
    /\ m_queue[i].running
    /\ engineProps' = IF ok THEN [engineProps EXCEPT !.dBusNonce = "saved"] ELSE engineProps
    /\ ComposerCommit(Dequeued(Composer, i, liveContexts))
    /\ UNCHANGED liveContexts

\* ---- BuildEngineManager ----

\* what createBuildEngine hands to its functor
Created(ok, valid) == IF ~ok \/ ~valid THEN "nullptr" ELSE "engine"

\* BuildEngineManager::createBuildEngine: the call; a virtual machine that
\* cannot be initialized is reported through a check point
createBuildEngine(initOk, context) ==
    /\ Len(asyncCalls) < MaxCalls
    /\ IF initOk
       THEN /\ asyncCalls' = Append(asyncCalls, AsyncCall("createBuildEngine", context, "running"))
            /\ UNCHANGED <<m_queue, batchLog>>
       ELSE ComposerCommit(enqueueCheckPoint(
                Called(AsyncCall("createBuildEngine", context, "queued")),
                context, Len(asyncCalls) + 1, "nullptr", liveContexts))
    /\ UNCHANGED <<liveContexts, engineProps>>

\* BuildEngineManager::createBuildEngine: updateVmProperties of the new
\* engine completed
createBuildEngineFinished(i, ok, valid) ==
    /\ i \in Pending("createBuildEngine")
    /\ asyncCalls' = [asyncCalls EXCEPT ![i] = InvokeGuarded(@, Created(ok, valid), liveContexts)]
    /\ UNCHANGED <<liveContexts, m_queue, batchLog, engineProps>>

\* ---- the callers ----

\* a context object is destroyed; its QPointer reads null from now on
contextDestroyed(context) ==
    /\ context \in liveContexts
    /\ liveContexts' = liveContexts \ {context}
    /\ UNCHANGED <<asyncCalls, m_queue, batchLog, engineProps>>

-----------------------------------------------------------------------------
(* Worker::run: the hooks around doRun, and JSEngine::call *)

\* ---- QJSValue ----

JSItem(type, text) == [type |-> type, text |-> text]

\* a script value: an array of items, or something that is no array
JSArray(items) == [isArray |-> TRUE, items |-> items]
JSOther == [isArray |-> FALSE, items |-> <<>>]

\* what a function name of the module evaluates to, and what calling it gives
Script(function, returns, value) ==
    [function |-> function, returns |-> returns, value |-> value]

\* the function name is empty: the hook is not configured
NoHook == Script("unset", "nothing", JSOther)

\* the result of JSEngine::call
JSError(text) == [isError |-> TRUE, text |-> text, value |-> JSOther]
JSResult(value) == [isError |-> FALSE, text |-> "", value |-> value]

\* resultTypeValidator of doRunCommandLineFilter: an array of strings
FilterResultValid(value) ==
    /\ value.isArray
    /\ \A i \in 1..Len(value.items) : value.items[i].type = "string"

\* resultTypeValidator of doRunPrePost: an array [bool, string]
PrePostResultValid(value) ==
    /\ value.isArray
    /\ Len(value.items) >= 2
    /\ value.items[1].type = "bool"
    /\ value.items[2].type = "string"

\* JSEngine::call, for a return value the validator found valid or not
call(script, valid) ==
    IF script.function = "error" THEN JSError("Internal error")
    ELSE IF script.function # "callable" THEN JSError("Internal error")
    ELSE IF script.returns = "error" THEN JSError("Error: thrown")
    ELSE IF ~valid THEN JSError("Internal error")
    ELSE JSResult(script.value)

\* QJSEngine::fromScriptValue<QStringList>
toStringList(value) == [i \in 1..Len(value.items) |-> value.items[i].text]

\* doRunCommandLineFilter
doRunCommandLineFilter(script, arguments) ==
    IF call(script, FilterResultValid(script.value)).isError
    THEN [ok |-> FALSE, arguments |-> arguments,
          errorString |-> call(script, FilterResultValid(script.value)).text]
    ELSE [ok |-> TRUE, errorString |-> NoErrorString,
          arguments |-> toStringList(call(script, FilterResultValid(script.value)).value)]

\* the mutant of doRunPrePost: the bool the hook returned is not looked at
doRunPrePost_IgnoresVeto(script) ==
    IF call(script, PrePostResultValid(script.value)).isError
    THEN [ok |-> FALSE, errorString |-> call(script, PrePostResultValid(script.value)).text]
    ELSE [ok |-> TRUE, errorString |-> script.value.items[2].text]

\* doRunPrePost
doRunPrePost(script) ==
    IF call(script, PrePostResultValid(script.value)).isError
    THEN [ok |-> FALSE, errorString |-> call(script, PrePostResultValid(script.value)).text]
    ELSE [ok |-> script.value.items[1].text = "true",
          errorString |-> script.value.items[2].text]

\* ---- the steps of Worker::run ----

Configured(script) == script # NoHook

\* *exitCode = SFDK_EXIT_ABNORMAL; return NormalExit;
RunAborted(errorText) ==
    /\ errorString' = errorText
    /\ exitCode' = "SFDK_EXIT_ABNORMAL"
    /\ exitStatus' = "NormalExit"
    /\ runPc' = "returned"

RunFrame ==
    UNCHANGED <<kind, features, vmRunning, autoStop, live, acc, m_needsVmOff, lockDownOk,
                setOk, pc, nPrepared, prepareFailed, notices, lastRequest, inWait,
                command>>

\* the command line filter hook
runCommandLineFilter ==
    /\ runPc = "commandLineFilter"
    /\ IF ~Configured(command.commandLineFilter)
       THEN /\ runPc' = "preRun"
            /\ UNCHANGED <<log, errorString, exitCode, exitStatus, runArguments>>
       ELSE /\ log' = Append(log, Call("commandLineFilter",
                          doRunCommandLineFilter(command.commandLineFilter, runArguments).ok,
                          Empty, Empty))
            /\ runArguments' =
                   doRunCommandLineFilter(command.commandLineFilter, runArguments).arguments
            /\ IF doRunCommandLineFilter(command.commandLineFilter, runArguments).ok
               THEN /\ runPc' = "preRun"
                    /\ UNCHANGED <<errorString, exitCode, exitStatus>>
               ELSE RunAborted(doRunCommandLineFilter(command.commandLineFilter,
                                                      runArguments).errorString)
    /\ RunFrame

\* a pre-run or post-run hook, at the place `at`; when it is not configured
\* or succeeds, run goes on to `next` with the exit status `status`
RunPrePost(at, script, next, status) ==
    /\ runPc = at
    /\ IF ~Configured(script)
       THEN /\ runPc' = next
            /\ exitStatus' = status
            /\ UNCHANGED <<log, errorString, exitCode>>
       ELSE /\ log' = Append(log, Call(at, doRunPrePost(script).ok, Empty, Empty))
            /\ IF doRunPrePost(script).ok
               THEN /\ errorString' = doRunPrePost(script).errorString
                    /\ runPc' = next
                    /\ exitStatus' = status
                    /\ UNCHANGED exitCode
               ELSE RunAborted(doRunPrePost(script).errorString)
    /\ UNCHANGED runArguments
    /\ RunFrame

\* the pre-run hook
runPreRun == RunPrePost("preRun", command.preRun, "doRun", exitStatus)

\* doRun(command, arguments, exitCode): the command itself, with its status
\* and the exit code it sets
runDoRun(status, code) ==
    /\ runPc = "doRun"
    /\ log' = Append(log, Call("doRun", status = "NormalExit", runArguments, Empty))
    /\ exitCode' = code
    /\ IF status # "NormalExit"
       THEN /\ exitStatus' = status
            /\ runPc' = "returned"
       ELSE /\ runPc' = "postRun"
            /\ UNCHANGED exitStatus
    /\ UNCHANGED <<errorString, runArguments>>
    /\ RunFrame

\* the post-run hook, and return NormalExit
runPostRun == RunPrePost("postRun", command.postRun, "returned", "NormalExit")

\* ---- the commands Worker::run is given ----

FilterScripts ==
    {NoHook,
     Script("error", "nothing", JSOther),
     Script("notCallable", "nothing", JSOther),
     Script("callable", "error", JSOther),
     Script("callable", "value", JSOther),
     Script("callable", "value", JSArray(<<JSItem("string", "a"), JSItem("number", "1")>>)),
     Script("callable", "value", JSArray(<<JSItem("string", "b")>>)),
     Script("callable", "value", JSArray(<<>>))}

PrePostScripts ==
    {NoHook,
     Script("error", "nothing", JSOther),
     Script("notCallable", "nothing", JSOther),
     Script("callable", "error", JSOther),
     Script("callable", "value", JSOther),
     Script("callable", "value", JSArray(<<JSItem("bool", "true")>>)),
     Script("callable", "value", JSArray(<<JSItem("string", "true"), JSItem("string", "")>>)),
     Script("callable", "value", JSArray(<<JSItem("bool", "true"), JSItem("number", "1")>>)),
     Script("callable", "value", JSArray(<<JSItem("bool", "true"), JSItem("string", "")>>)),
     Script("callable", "value", JSArray(<<JSItem("bool", "false"), JSItem("string", "no")>>))}

Commands ==
    [commandLineFilter : FilterScripts, preRun : PrePostScripts, postRun : PrePostScripts]

ArgumentLists == {<<>>, <<"a">>}

\* no command is run
IdleRun ==
    /\ command = [commandLineFilter |-> NoHook, preRun |-> NoHook, postRun |-> NoHook]
    /\ runArguments = <<>>
    /\ runPc = "idle"

-----------------------------------------------------------------------------
(* The property-setting command as a state machine *)

\* no build engine is involved in the property-setting command
IdleTargets ==
    /\ buildTargets = <<>>
    /\ buildTargetsData = <<>>
    /\ sharedTargetsPath = "targets"
    /\ useSystemSettingsOnly = FALSE
    /\ toolsDirs = {}
    /\ run = [op |-> "none"]

\* nor is the registry of build engines
IdleEngines ==
    /\ m_buildEngines = <<>>
    /\ merged = [op |-> "none"]
    /\ IdleBatch
    /\ IdleRun

Init == InitProps /\ IdleTargets /\ IdleEngines

Next ==
    \/ \E assignment \in Assignments(kind) : Prepare(assignment) /\ UNCHANGED <<targetVars, engineVars>>
    \/ StartSet /\ UNCHANGED <<targetVars, engineVars, argument>>
    \/ LockDownDone /\ UNCHANGED <<targetVars, engineVars, argument>>
    \/ SetMemorySizeMb /\ UNCHANGED <<targetVars, engineVars, argument>>
    \/ SetSwapSizeMb /\ UNCHANGED <<targetVars, engineVars, argument>>
    \/ SetCpuCount /\ UNCHANGED <<targetVars, engineVars, argument>>
    \/ SetStorageSizeMb /\ UNCHANGED <<targetVars, engineVars, argument>>
    \/ ReserveStorageSizeMb /\ UNCHANGED <<targetVars, engineVars, argument>>
    \/ SetDisplayProperties /\ UNCHANGED <<targetVars, engineVars, argument>>
    \/ EmulatorSetSshPort /\ UNCHANGED <<targetVars, engineVars, argument>>
    \/ EmulatorSetSshTimeout /\ UNCHANGED <<targetVars, engineVars, argument>>
    \/ SetCustomBuildHostName /\ UNCHANGED <<targetVars, engineVars, argument>>
    \/ SetBuildEnvironmentFilter /\ UNCHANGED <<targetVars, engineVars, argument>>
    \/ EngineSetSshPort /\ UNCHANGED <<targetVars, engineVars, argument>>
    \/ EngineSetSshTimeout /\ UNCHANGED <<targetVars, engineVars, argument>>
    \/ SetDBusPort /\ UNCHANGED <<targetVars, engineVars, argument>>
    \/ SetWwwProxy /\ UNCHANGED <<targetVars, engineVars, argument>>
    \/ Finish /\ UNCHANGED <<targetVars, engineVars, argument>>
    \/ beginTerminate /\ UNCHANGED <<targetVars, engineVars, argument>>
    \/ beginStop /\ UNCHANGED <<targetVars, engineVars, argument>>
    \/ beginContinue /\ UNCHANGED <<targetVars, engineVars, argument>>

Spec == Init /\ [][Next]_vars

-----------------------------------------------------------------------------
(* The loop over the assignments on its own: the values a user may type *)

\* the argument `name=value`
Assign(name, value) == name \o <<"=">> \o value

\* texts given for a port number
PortTexts ==
    { <<"0">>   \* 0
    , <<"1">>   \* 1
    , <<"8", "0">>   \* 80
    , <<"1", "0", "2", "3">>   \* 1023
    , <<"1", "0", "2", "4">>   \* 1024
    , <<"2", "2", "2", "3">>   \* 2223
    , <<"6", "5", "5", "3", "5">>   \* 65535
    , <<"6", "5", "5", "3", "6">>   \* 65536
    , <<"7", "0", "0", "0", "0">>   \* 70000
    , <<"-", "1">>   \* -1
    , <<"+", "2", "0", "0", "0">>   \* +2000
    , <<"a", "b", "c">>   \* abc
    , <<>>   \* (empty)
    , <<"2", "1", "4", "7", "4", "8", "3", "6", "4", "8">>   \* 2147483648
    }

\* texts given for the memory size and the CPU count
CountTexts ==
    { <<"1">>   \* 1
    , <<"8">>   \* 8
    , <<"9">>   \* 9
    , <<"4", "0", "9", "6">>   \* 4096
    , <<"4", "0", "9", "7">>   \* 4097
    , <<"9", "9", "9", "9", "9", "9">>   \* 999999
    , <<"0">>   \* 0
    , <<"a", "b", "c">>   \* abc
    }

\* texts given for the free storage size
FreeStorageTexts ==
    { <<"5", "0", "0", "0">>   \* 5000
    , <<"5", "0", "0", "0", "+">>   \* 5000+
    , <<"0">>   \* 0
    , <<"0", "+">>   \* 0+
    , <<"a", "b", "c">>   \* abc
    , <<>>   \* (empty)
    , <<"+">>   \* +
    , <<"5", "0", "0", "0", ",", "1", "0", "0">>   \* 5000,100
    , <<"5", "0", "0", "0", "+", ",", "1", "0", "0">>   \* 5000+,100
    , <<"5", "0", "0", "0", ",", "1", "0", "0", "+">>   \* 5000,100+
    , <<",", "5">>   \* ,5
    , <<"9", "9", "9", "9", "9", "9">>   \* 999999
    , <<"5", "0", "0", "+", ",", "3", "0", "0", "0">>   \* 500+,3000
    }

\* texts given for the swap and the storage size
SizeTexts ==
    { <<"2", "5", "6">>   \* 256
    , <<"5", "0", "0", "0">>   \* 5000
    , <<"2", "0", "0", "0", "0">>   \* 20000
    }

\* texts given for a value out of a dictionary
DictionaryTexts ==
    { <<"y", "e", "s">>   \* yes
    , <<"n", "o">>   \* no
    , <<"t", "r", "u", "e">>   \* true
    , <<"Y", "E", "S">>   \* YES
    , <<"p", "o", "r", "t", "r", "a", "i", "t">>   \* portrait
    , <<"l", "a", "n", "d", "s", "c", "a", "p", "e">>   \* landscape
    , <<"P", "o", "r", "t", "r", "a", "i", "t">>   \* Portrait
    , <<"s", "i", "d", "e", "w", "a", "y", "s">>   \* sideways
    , <<>>   \* (empty)
    }

\* assignments to names in the deprecated camel-case form, and names that only look like it
CamelCaseAssignments ==
    { <<"v", "m", ".", "c", "p", "u", "C", "o", "u", "n", "t", "=", "4">>   \* vm.cpuCount=4
    , <<"v", "m", ".", "m", "e", "m", "o", "r", "y", "S", "i", "z", "e", "=", "2", "0", "4", "8">>   \* vm.memorySize=2048
    , <<"v", "m", ".", "f", "r", "e", "e", "S", "t", "o", "r", "a", "g", "e", "S", "i", "z", "e", "=", "5", "0", "0", "0", "+">>   \* vm.freeStorageSize=5000+
    , <<"v", "m", ".", "c", "p", "u", "C", "o", "u", "n", "t", "=", "a", "b", "c">>   \* vm.cpuCount=abc
    , <<"v", "m", ".", "C", "p", "u", "C", "o", "u", "n", "t", "=", "4">>   \* vm.CpuCount=4
    , <<"s", "s", "h", "P", "o", "r", "t", "=", "2", "2", "2", "3">>   \* sshPort=2223
    , <<"d", "e", "v", "i", "c", "e", "M", "o", "d", "e", "l", "=", "m", "B">>   \* deviceModel=mB
    , <<"h", "o", "s", "t", "N", "a", "m", "e", "=", "h", "1">>   \* hostName=h1
    , <<"p", "r", "o", "x", "y", "S", "e", "r", "v", "e", "r", "s", "=", "p", "1">>   \* proxyServers=p1
    , <<"p", "r", "o", "x", "y", ".", "S", "e", "r", "v", "e", "r", "s", "=", "p", "1">>   \* proxy.Servers=p1
    }

\* what the two show functions print
ShownTexts ==
    {showBoolean(value) : value \in BOOLEAN}
    \cup {showOrientation(value) : value \in {Vertical, Horizontal}}

VmInputs ==
    {Assign(name, value) : name \in {VM_MEMORY_SIZE_MB, VM_CPU_COUNT}, value \in CountTexts}
    \cup {Assign(VM_FREE_STORAGE_SIZE_MB, value) : value \in FreeStorageTexts}
    \cup {Assign(name, value) : name \in {VM_SWAP_SIZE_MB, VM_STORAGE_SIZE_MB},
                                value \in SizeTexts}

EmulatorInputs ==
    {Assign(EMULATOR_SSH_PORT, value) : value \in PortTexts}
    \cup {Assign(name, value) : name \in {EMULATOR_ORIENTATION, EMULATOR_DOWNSCALE},
                                value \in DictionaryTexts \cup ShownTexts}

EngineInputs ==
    {Assign(name, value) : name \in {ENGINE_SSH_PORT, ENGINE_DBUS_PORT}, value \in PortTexts}

SdkInputs ==
    {Assign(WWW_PROXY_TYPE, value) : value \in {WWW_PROXY_MANUAL, WWW_PROXY_DISABLED}}

\* the arguments tried on each command
PrepareInputs(k) ==
    IF k = "emulator" THEN VmInputs \cup EmulatorInputs \cup CamelCaseAssignments
    ELSE IF k = "engine" THEN VmInputs \cup EngineInputs \cup CamelCaseAssignments
    ELSE SdkInputs \cup CamelCaseAssignments

\* the machine is off, so that nothing but the assignments decides
InitPrepare ==
    /\ kind \in {"emulator", "engine", "sdk"}
    /\ features \in FeatureSets
    /\ vmRunning = FALSE
    /\ autoStop = FALSE
    /\ InitTask
    /\ IdleTargets
    /\ IdleEngines

NextPrepare ==
    \E assignment \in PrepareInputs(kind) :
        Prepare(assignment) /\ UNCHANGED <<targetVars, engineVars>>

SpecPrepare == InitPrepare /\ [][NextPrepare]_vars

-----------------------------------------------------------------------------
(* BuildTargetDump and BuildTargetData *)

\* a dump as targets.xml gives it; operator== compares all ten fields
BuildTargetDump(name, origin, gccDumpMachine, rpmValidationSuites) ==
    [name |-> name, origin |-> origin, gccDumpMachine |-> gccDumpMachine,
     gccDumpMacros |-> "macros", gccDumpIncludes |-> "includes",
     gccDumpInstallDir |-> "installDir", qmakeQuery |-> "query",
     cmakeCapabilities |-> "capabilities", cmakeVersion |-> "version",
     rpmValidationSuites |-> rpmValidationSuites]

\* the comparison without the fields derived from the name
BuildTargetDataEquals_AnyName(x, y) ==
    /\ x.origin = y.origin
    /\ x.gdb = y.gdb
    /\ x.rpmValidationSuites = y.rpmValidationSuites

\* BuildTargetData::operator==: machine and flags are not compared
BuildTargetDataEquals(x, y) ==
    /\ x.name = y.name
    /\ x.origin = y.origin
    /\ x.sysRoot = y.sysRoot
    /\ x.toolsPath = y.toolsPath
    /\ x.gdb = y.gdb
    /\ x.rpmValidationSuites = y.rpmValidationSuites

\* BuildTargetData::snapshotSuffix()
snapshotSuffix(name, origin) == mid(name, Len(origin) + 1)

sysRootForTarget(path, targetName) == <<path, targetName>>

toolsPathForTarget(targetName) == <<"tools", "vm", targetName>>

\* QTextStream::readLineInto, line by line
RECURSIVE LinesFrom(_, _, _)
LinesFrom(s, cur, out) ==
    IF s = Empty THEN (IF cur = Empty THEN out ELSE Append(out, cur))
    ELSE IF s[1] = "\n" THEN LinesFrom(Tail(s), Empty, Append(out, cur))
    ELSE LinesFrom(Tail(s), Append(cur, s[1]), out)

toLower(s) == [i \in 1..Len(s) |-> toLowerChar(s[i])]

RECURSIVE join(_, _)
join(parts, sep) ==
    IF parts = <<>> THEN Empty
    ELSE IF Len(parts) = 1 THEN parts[1]
    ELSE parts[1] \o <<sep>> \o join(Tail(parts), sep)

Essential == <<"e", "s", "s", "e", "n", "t", "i", "a", "l">>

\* one line of the listing, already split at the spaces
RpmValidationSuiteData(tokens) ==
    [id |-> tokens[1],
     essential |-> (toLower(tokens[2]) = Essential),
     website |-> IF tokens[3] = <<"-">> THEN Empty ELSE tokens[3],
     name |-> join(SubSeq(tokens, 4, Len(tokens)), " ")]

RECURSIVE SuitesFromLines(_, _)
SuitesFromLines(lines, retv) ==
    IF lines = <<>> THEN retv
    ELSE IF Len(split(lines[1], " ")) < 3 THEN retv
    ELSE SuitesFromLines(Tail(lines),
                         Append(retv, RpmValidationSuiteData(split(lines[1], " "))))

rpmValidationSuitesFromString(string) == SuitesFromLines(LinesFrom(string, Empty, <<>>), <<>>)

\* the flags createTargetData derives from the origin and the snapshot suffix
SnapshotFlags(origin, suffix) ==
    IF origin = Empty THEN {}
    ELSE {"Snapshot"}
         \cup (IF suffix = DEFAULT_SNAPSHOT_SUFFIX THEN {"DefaultSnapshot"} ELSE {})
         \cup (IF contains(suffix, POOLED_SNAPSHOT_INFIX) THEN {"PooledSnapshot"} ELSE {})

createTargetData(path, targetDump) ==
    [name |-> targetDump.name,
     origin |-> targetDump.origin,
     flags |-> SnapshotFlags(targetDump.origin,
                             snapshotSuffix(targetDump.name, targetDump.origin)),
     machine |-> targetDump.gccDumpMachine,
     sysRoot |-> sysRootForTarget(path, targetDump.name),
     toolsPath |-> toolsPathForTarget(targetDump.name),
     gdb |-> "gdb",
     rpmValidationSuites |-> rpmValidationSuitesFromString(targetDump.rpmValidationSuites)]

-----------------------------------------------------------------------------
(* The targets a targets.xml of the model can list *)

\* the longest list of targets in one targets.xml
MaxTargets == 2

TargetA == <<"a">>
TargetB == <<"b">>
TargetC == <<"c">>
SnapshotOfA == <<"a", ".", "d", "e", "f", "a", "u", "l", "t">>
Misnamed == <<"a", "b">>

\* "s Essential - n": one suite, essential, without a website
SuiteListing == <<"s", " ", "E", "s", "s", "e", "n", "t", "i", "a", "l", " ", "-", " ", "n">>

\* two probes of target a that differ in the compiler's machine only, target b
\* with a validation suite, and the default snapshot of a
Dumps ==
    {BuildTargetDump(TargetA, Empty, "m1", Empty),
     BuildTargetDump(TargetA, Empty, "m2", Empty),
     BuildTargetDump(TargetB, Empty, "m1", SuiteListing),
     BuildTargetDump(SnapshotOfA, TargetA, "m1", Empty)}

\* a snapshot of a whose name does not start with "a."
MisnamedSnapshot == BuildTargetDump(Misnamed, TargetA, "m1", Empty)

\* target a of the first probe under the name c, probed on another machine
Renamed == BuildTargetDump(TargetC, Empty, "m2", Empty)

\* the shared targets directory of the build engine
SharedTargetsPath == "targets"

\* createTargetData for every dump of the model, under the shared targets
\* directory of the build engine, computed once
TargetData ==
    [target \in Dumps \cup {MisnamedSnapshot, Renamed} |->
        createTargetData(SharedTargetsPath, target)]

-----------------------------------------------------------------------------
(* QList helpers, zero-based as in the code *)

\* QList::indexOf with BuildTargetDump::operator==
RECURSIVE DumpIndexFrom(_, _, _)
DumpIndexFrom(list, x, i) ==
    IF i > Len(list) THEN -1
    ELSE IF list[i] = x THEN i - 1
    ELSE DumpIndexFrom(list, x, i + 1)

DumpIndexOf_Never(list, x) == -1

DumpIndexOf(list, x) == DumpIndexFrom(list, x, 1)

\* QList::indexOf with BuildTargetData::operator==
RECURSIVE DataIndexFrom(_, _, _)
DataIndexFrom(list, x, i) ==
    IF i > Len(list) THEN -1
    ELSE IF BuildTargetDataEquals(list[i], x) THEN i - 1
    ELSE DataIndexFrom(list, x, i + 1)

DataIndexOf(list, x) == DataIndexFrom(list, x, 1)

removeAt_Last(list, k) == SubSeq(list, 1, Len(list) - 1)

\* QList::removeAt, for an index in range
removeAt(list, k) == SubSeq(list, 1, k) \o SubSeq(list, k + 2, Len(list))

RECURSIVE Reverse(_)
Reverse(s) == IF s = <<>> THEN <<>> ELSE Append(Reverse(Tail(s)), s[1])

-----------------------------------------------------------------------------
(* BuildEnginePrivate::updateBuildTargets(QList<BuildTargetDump>) *)

Sane_Always(target, origins) == TRUE

\* the sanity check on one target of the new list
Sane(target, origins) ==
    /\ target.name \notin origins
    /\ target.origin # Empty =>
          /\ startsWith(target.name, Append(target.origin, "."))
          /\ Len(target.name) > Len(target.origin) + 1

OriginsOf(newTargets) == {newTargets[i].origin : i \in 1..Len(newTargets)}

Sanitized(newTargets) ==
    SelectSeq(newTargets, LAMBDA target : Sane(target, OriginsOf(newTargets)))

DataOf(targets) == [i \in 1..Len(targets) |-> TargetData[targets[i]]]

\* initBuildTargetAt: existing tools are kept, missing ones are created
\* (the directory is taken to be creatable)
initBuildTargetAt(dirs, name, systemOnly) == IF systemOnly THEN dirs ELSE dirs \cup {name}

\* deinitBuildTargetAt: the tools directory is removed
deinitBuildTargetAt(dirs, name, systemOnly) == IF systemOnly THEN dirs ELSE dirs \ {name}

Signal(name, index, target) == [signal |-> name, index |-> index, target |-> target]

\* the working state of one call: the cache, the lists still to be matched, and
\* what the call has done so far
Begun(targets, data, dirs, newTargets, newTargetsData) ==
    [i |-> 0, buildTargets |-> targets, buildTargetsData |-> data, dirs |-> dirs,
     newTargets |-> newTargets, newTargetsData |-> newTargetsData,
     toRemove |-> <<>>, updated |-> <<>>, events |-> <<>>]

\* one iteration of the loop over the cached entries
MatchStep(s, match, dataMatch, systemOnly) ==
    IF match # -1
    THEN [s EXCEPT !.i = s.i + 1,
                   !.newTargets = removeAt(s.newTargets, match),
                   !.newTargetsData = removeAt(s.newTargetsData, match)]
    ELSE IF dataMatch # -1
    THEN [s EXCEPT !.i = s.i + 1,
                   !.buildTargets[s.i + 1] = s.newTargets[dataMatch + 1],
                   !.newTargets = removeAt(s.newTargets, dataMatch),
                   !.newTargetsData = removeAt(s.newTargetsData, dataMatch),
                   !.updated = Append(s.updated, [index |-> s.i,
                                                  target |-> s.newTargets[dataMatch + 1]]),
                   !.dirs = initBuildTargetAt(
                                deinitBuildTargetAt(s.dirs, s.newTargets[dataMatch + 1].name,
                                                    systemOnly),
                                s.buildTargetsData[s.i + 1].name, systemOnly)]
    ELSE [s EXCEPT !.i = s.i + 1, !.toRemove = Append(s.toRemove, s.i)]

RECURSIVE MatchLoop(_, _)
MatchLoop(s, systemOnly) ==
    IF s.i >= Len(s.buildTargets) THEN s
    ELSE MatchLoop(MatchStep(s, DumpIndexOf(s.newTargets, s.buildTargets[s.i + 1]),
                             DataIndexOf(s.newTargetsData, s.buildTargetsData[s.i + 1]),
                             systemOnly),
                   systemOnly)

\* Utils::reverseForeach(toRemove, ...)
RemovalOrder(toRemove) == Reverse(toRemove)

\* the removal loop erasing the entry before it announces the removal
RemoveStep_ErasesFirst(s, i, systemOnly) ==
    [s EXCEPT !.events = Append(s.events,
                                Signal("aboutToRemoveBuildTarget", i,
                                       IF i + 2 <= Len(s.buildTargets)
                                       THEN s.buildTargets[i + 2] ELSE s.buildTargets[1])),
              !.dirs = deinitBuildTargetAt(s.dirs, s.buildTargets[i + 1].name, systemOnly),
              !.buildTargets = removeAt(s.buildTargets, i),
              !.buildTargetsData = removeAt(s.buildTargetsData, i)]

\* the body of the removal loop for the cached index i
RemoveStep(s, i, systemOnly) ==
    [s EXCEPT !.events = Append(s.events,
                                Signal("aboutToRemoveBuildTarget", i, s.buildTargets[i + 1])),
              !.dirs = deinitBuildTargetAt(s.dirs, s.buildTargets[i + 1].name, systemOnly),
              !.buildTargets = removeAt(s.buildTargets, i),
              !.buildTargetsData = removeAt(s.buildTargetsData, i)]

RECURSIVE RemoveLoop(_, _, _)
RemoveLoop(s, order, systemOnly) ==
    IF order = <<>> THEN s
    ELSE RemoveLoop(RemoveStep(s, order[1], systemOnly), Tail(order), systemOnly)

\* the addition loop announcing the index before it appends
AddStep_IndexBeforeAppend(s, target, systemOnly) ==
    [s EXCEPT !.buildTargets = Append(s.buildTargets, target),
              !.buildTargetsData = Append(s.buildTargetsData, TargetData[target]),
              !.dirs = initBuildTargetAt(s.dirs, target.name, systemOnly),
              !.events = Append(s.events,
                                Signal("buildTargetAdded", Len(s.buildTargets) - 1, target))]

\* the body of the loop over the targets left in the new list
AddStep(s, target, systemOnly) ==
    [s EXCEPT !.buildTargets = Append(s.buildTargets, target),
              !.buildTargetsData = Append(s.buildTargetsData, TargetData[target]),
              !.dirs = initBuildTargetAt(s.dirs, target.name, systemOnly),
              !.events = Append(s.events,
                                Signal("buildTargetAdded", Len(s.buildTargets), target))]

RECURSIVE AddLoop(_, _, _)
AddLoop(s, rest, systemOnly) ==
    IF rest = <<>> THEN s
    ELSE AddLoop(AddStep(s, rest[1], systemOnly), Tail(rest), systemOnly)

Matched(targets, data, dirs, sane, systemOnly) ==
    MatchLoop(Begun(targets, data, dirs, sane, DataOf(sane)), systemOnly)

Removed(matched, systemOnly) ==
    RemoveLoop(matched, RemovalOrder(matched.toRemove), systemOnly)

Added(removed, systemOnly) == AddLoop(removed, removed.newTargets, systemOnly)

\* the state of the cache when updateBuildTargets(newTargets) returns
Reconciled(targets, data, dirs, newTargets, systemOnly) ==
    Added(Removed(Matched(targets, data, dirs, Sanitized(newTargets), systemOnly),
                  systemOnly),
          systemOnly)

-----------------------------------------------------------------------------
(* BuildEnginePrivate::updateBuildTargets(): the refresh from targets.xml *)

\* the only version of targets.xml the reader's result is used for
SupportedVersion == 4

Accepted_Any(document) == TRUE

\* the two QTC_ASSERTs on the reader
Accepted(document) == ~document.hasError /\ document.version = SupportedVersion

\* what the refresh leaves in `run`: the reader's verdict, the list it handed over,
\* and what the reconciliation did
Ran(document, accepted, repeated, result) ==
    [op |-> "updateBuildTargets", hasError |-> document.hasError,
     version |-> document.version, accepted |-> accepted,
     targets |-> IF accepted THEN document.targets ELSE <<>>,
     repeated |-> repeated,
     toRemove |-> result.toRemove, updated |-> result.updated, events |-> result.events]

\* the previous step was an accepted refresh from the same list of targets
Repeats(last, document) ==
    /\ last.op = "updateBuildTargets"
    /\ last.accepted
    /\ last.targets = document.targets

Commit(document, accepted, result) ==
    /\ buildTargets' = result.buildTargets
    /\ buildTargetsData' = result.buildTargetsData
    /\ toolsDirs' = result.dirs
    /\ run' = Ran(document, accepted, accepted /\ Repeats(run, document), result)

updateBuildTargets(document) ==
    /\ IF Accepted(document)
       THEN Commit(document, TRUE,
                   Reconciled(buildTargets, buildTargetsData, toolsDirs, document.targets,
                              useSystemSettingsOnly))
       ELSE Commit(document, FALSE,
                   Begun(buildTargets, buildTargetsData, toolsDirs, <<>>, <<>>))
    /\ UNCHANGED <<sharedTargetsPath, useSystemSettingsOnly>>

-----------------------------------------------------------------------------
(* The targets.xml documents and the build engine they are read into *)

\* lists that hold the misnamed snapshot
MisnamedLists ==
    {<<MisnamedSnapshot>>,
     <<BuildTargetDump(TargetA, Empty, "m1", Empty), MisnamedSnapshot>>,
     <<MisnamedSnapshot, BuildTargetDump(TargetB, Empty, "m1", SuiteListing)>>}

\* the list that has target a renamed
RenamedLists == {<<Renamed>>}

TargetLists ==
    UNION {[1..n -> Dumps] : n \in 0..MaxTargets} \cup MisnamedLists \cup RenamedLists

\* a targets.xml that cannot be parsed, and one written in an older format
Unreadable == [hasError |-> TRUE, version |-> 0, targets |-> <<>>]
Outdated ==
    [hasError |-> FALSE, version |-> 3,
     targets |-> <<BuildTargetDump(TargetB, Empty, "m1", SuiteListing)>>]

Documents ==
    {Unreadable, Outdated}
    \cup [hasError : {FALSE}, version : {SupportedVersion}, targets : TargetLists]

InitTargets ==
    /\ kind = "engine"
    /\ features = AllFeatures
    /\ vmRunning = FALSE
    /\ autoStop = FALSE
    /\ InitTask
    /\ buildTargets = <<>>
    /\ buildTargetsData = <<>>
    /\ sharedTargetsPath = SharedTargetsPath
    /\ useSystemSettingsOnly \in BOOLEAN
    /\ toolsDirs = {}
    /\ run = [op |-> "none"]
    /\ IdleEngines

NextTargets ==
    \E document \in Documents :
        updateBuildTargets(document) /\ UNCHANGED <<propVars, engineVars, argument>>

SpecTargets == InitTargets /\ [][NextTargets]_vars

-----------------------------------------------------------------------------
(* BuildEngineManager: the registry of build engines and its merge with the
   stored settings (BuildEngineManager::fromMap) *)

\* the only version of the stored engines fromMap reads
SupportedEnginesVersion == 1

\* longest list of engines a settings document carries
MaxEngines == 2

UriA == "sfdkvm:VirtualBox#A"
UriB == "sfdkvm:VirtualBox#B"

\* the URIs in the order of QMap<QUrl, QVariantMap>::keys()
EngineUris == <<UriA, UriB>>

\* what BuildEnginePrivate::toMap stores of one engine: its identity (URI and
\* creation time), its origin, standing for its configuration the SSH port,
\* and its build targets: the count and the entries stored under the keys
\* 0, 1, ... (a count above the number of entries has keys missing)
EngineData(vmUri, creationTime, autodetected, sshPort, targetsCount, targets) ==
    [vmUri |-> vmUri, creationTime |-> creationTime, autodetected |-> autodetected,
     sshPort |-> sshPort, targetsCount |-> targetsCount, targets |-> targets]

\* std::make_unique<BuildEngine>: no virtual machine yet, no build targets
NewBuildEngine ==
    [vmUri |-> "", creationTime |-> 0, autodetected |-> FALSE, sshPort |-> 0,
     buildTargets |-> <<>>, buildTargetsData |-> <<>>, toolsDirs |-> {}]

\* BuildEnginePrivate::fromMap up to the build targets: the virtual machine is
\* initialized from the URI when the engine has none, everything else is read
\* from the map
EngineSettingsFromMap(engine, engineData) ==
    [engine EXCEPT !.vmUri = IF @ = "" THEN engineData.vmUri ELSE @,
                   !.creationTime = engineData.creationTime,
                   !.autodetected = engineData.autodetected,
                   !.sshPort = engineData.sshPort]

\* every key below the count of build targets is there
TargetsReadable(engineData) == engineData.targetsCount <= Len(engineData.targets)

\* newBuildTargets, as the loop over the count collects it
StoredTargets(engineData) == SubSeq(engineData.targets, 1, engineData.targetsCount)

\* the engine after its updateBuildTargets(newTargets) has returned
EngineReconciled(engine, result) ==
    [engine EXCEPT !.buildTargets = result.buildTargets,
                   !.buildTargetsData = result.buildTargetsData,
                   !.toolsDirs = result.dirs]

\* updateBuildTargets(newTargets) of the engine
EngineTargetsUpdated(engine, newTargets, systemOnly) ==
    Reconciled(engine.buildTargets, engine.buildTargetsData, engine.toolsDirs, newTargets,
               systemOnly)

\* fromMap running updateBuildTargets on what it has read up to the missing key
BuildEngineFromMap_LoadsWhatItRead(engine, engineData, systemOnly) ==
    EngineReconciled(EngineSettingsFromMap(engine, engineData),
                     EngineTargetsUpdated(engine, IF TargetsReadable(engineData)
                                                  THEN StoredTargets(engineData)
                                                  ELSE engineData.targets,
                                          systemOnly))

\* BuildEnginePrivate::fromMap: it returns false at the first missing key of a
\* build target, before updateBuildTargets and after the settings were taken
BuildEngineFromMap(engine, engineData, systemOnly) ==
    IF TargetsReadable(engineData)
    THEN EngineReconciled(EngineSettingsFromMap(engine, engineData),
                          EngineTargetsUpdated(engine, StoredTargets(engineData),
                                               systemOnly))
    ELSE EngineSettingsFromMap(engine, engineData)

\* what one call of BuildEnginePrivate::fromMap returned and what the build
\* engine signalled in it
Loaded(engine, engineData, systemOnly) ==
    [vmUri |-> engineData.vmUri, ok |-> TargetsReadable(engineData),
     events |-> IF TargetsReadable(engineData)
                THEN EngineTargetsUpdated(engine, StoredTargets(engineData),
                                          systemOnly).events
                ELSE <<>>]

\* QMap::insert and QMap::remove
InsertKey(map, key, value) ==
    [k \in DOMAIN map \cup {key} |-> IF k = key THEN value ELSE map[k]]
RemoveKey_Nothing(map, key) == map

RemoveKey(map, key) == [k \in DOMAIN map \ {key} |-> map[k]]
EmptyMap == [k \in {} |-> k]

\* every key below the count is there and no entry has an empty URI
EnginesReadable(data) ==
    /\ data.count <= Len(data.engines)
    /\ \A i \in 1..data.count : data.engines[i].vmUri # ""

\* the loop over the count: a later entry of a URI replaces an earlier one
RECURSIVE InsertedFrom(_, _, _, _)
InsertedFrom(map, engines, i, count) ==
    IF i > count THEN map
    ELSE InsertedFrom(InsertKey(map, engines[i].vmUri, engines[i]), engines, i + 1, count)

NewEnginesData(data) == InsertedFrom(EmptyMap, data.engines, 1, data.count)

\* the identity taken to be the URI alone
inNewData_ByUri(engine, newEnginesData) == engine.vmUri \in DOMAIN newEnginesData

\* the cached engine is in the new data: same URI and same creation time
inNewData(engine, newEnginesData) ==
    /\ engine.vmUri \in DOMAIN newEnginesData
    /\ newEnginesData[engine.vmUri].creationTime = engine.creationTime

\* the first branch with the test of the origin turned around
Dropping_NotAutodetected(engine, newEnginesData, fromSystemSettings) ==
    ~inNewData(engine, newEnginesData) /\ (~fromSystemSettings \/ ~engine.autodetected)

\* the first branch sparing every auto-detected engine
Dropping_KeepsAutodetected(engine, newEnginesData, fromSystemSettings) ==
    ~inNewData(engine, newEnginesData) /\ ~engine.autodetected

\* the first branch of the loop over the cached engines
Dropping(engine, newEnginesData, fromSystemSettings) ==
    ~inNewData(engine, newEnginesData) /\ (~fromSystemSettings \/ engine.autodetected)

\* the second branch never taken
Preserving_Never(engine, fromSystemSettings) == FALSE

\* its second branch
Preserving(engine, fromSystemSettings) == engine.autodetected /\ fromSystemSettings

\* a signal of the manager, with the URI of the engine at the index
EngineSignal(name, index, vmUri) == [name |-> name, index |-> index, vmUri |-> vmUri]

\* one cached engine: dropped, preserved as the user has it, or remembered as existing
ExistingStep(s, engine, fromSystemSettings) ==
    IF Dropping(engine, s.newEnginesData, fromSystemSettings)
    THEN [s EXCEPT !.events = Append(@, EngineSignal("aboutToRemoveBuildEngine",
                                                      Len(s.engines), engine.vmUri))]
    ELSE IF Preserving(engine, fromSystemSettings)
    THEN [s EXCEPT !.engines = Append(@, engine),
                   !.newEnginesData = RemoveKey(@, engine.vmUri)]
    ELSE [s EXCEPT !.engines = Append(@, engine),
                   !.existing = InsertKey(@, engine.vmUri, Len(s.engines) + 1)]

RECURSIVE ExistingLoop(_, _, _, _)
ExistingLoop(s, cached, i, fromSystemSettings) ==
    IF i > Len(cached) THEN s
    ELSE ExistingLoop(ExistingStep(s, cached[i], fromSystemSettings), cached, i + 1,
                      fromSystemSettings)

\* one URI of the new data: the existing engine is updated or a new one is added;
\* system settings never update an engine that is not auto-detected, and the
\* merge returns when the engine cannot read its data
UpdateStep(s, vmUri, fromSystemSettings, systemOnly) ==
    IF vmUri \in DOMAIN s.existing
    THEN IF fromSystemSettings /\ ~s.engines[s.existing[vmUri]].autodetected
         THEN [s EXCEPT !.returned = TRUE]
         ELSE [s EXCEPT !.engines[s.existing[vmUri]] =
                            BuildEngineFromMap(@, s.newEnginesData[vmUri], systemOnly),
                        !.loads = Append(@, Loaded(s.engines[s.existing[vmUri]],
                                                   s.newEnginesData[vmUri], systemOnly)),
                        !.returned = ~TargetsReadable(s.newEnginesData[vmUri])]
    ELSE IF TargetsReadable(s.newEnginesData[vmUri])
    THEN [s EXCEPT !.engines = Append(@, BuildEngineFromMap(NewBuildEngine,
                                                            s.newEnginesData[vmUri],
                                                            systemOnly)),
                   !.loads = Append(@, Loaded(NewBuildEngine, s.newEnginesData[vmUri],
                                              systemOnly)),
                   !.events = Append(@, EngineSignal("buildEngineAdded", Len(s.engines),
                                                     vmUri))]
    ELSE [s EXCEPT !.loads = Append(@, Loaded(NewBuildEngine, s.newEnginesData[vmUri],
                                              systemOnly)),
                   !.returned = TRUE]

RECURSIVE UpdateLoop(_, _, _, _)
UpdateLoop(s, i, fromSystemSettings, systemOnly) ==
    IF i > Len(EngineUris) \/ s.returned THEN s
    ELSE IF EngineUris[i] \in DOMAIN s.newEnginesData
    THEN UpdateLoop(UpdateStep(s, EngineUris[i], fromSystemSettings, systemOnly), i + 1,
                    fromSystemSettings, systemOnly)
    ELSE UpdateLoop(s, i + 1, fromSystemSettings, systemOnly)

\* the two loops of fromMap over the cached engines and the new data
MergeBegun(newEnginesData) ==
    [engines |-> <<>>, newEnginesData |-> newEnginesData, existing |-> EmptyMap,
     events |-> <<>>, loads |-> <<>>, returned |-> FALSE]
MergedEngines(cached, newEnginesData, fromSystemSettings, systemOnly) ==
    UpdateLoop(ExistingLoop(MergeBegun(newEnginesData), cached, 1, fromSystemSettings), 1,
               fromSystemSettings, systemOnly)

\* the version and the install directory are usable
EnginesAccepted(data) ==
    data.version = SupportedEnginesVersion /\ data.installDir # Empty

\* BuildEngineManager::setCustomBuildHostName and setBuildEnvironmentFilter as
\* fromMap calls them: user settings always, system settings only to fill a gap
HostSettingsFromMap(lv, data, fromSystemSettings) ==
    [lv EXCEPT !.customBuildHostName =
                   IF ~fromSystemSettings \/ @ = Empty THEN data.customBuildHostName ELSE @,
               !.buildEnvironmentFilter =
                   IF ~fromSystemSettings \/ @ = <<>> THEN data.buildEnvironmentFilter
                   ELSE @]

\* what is kept of a merge: its input, the cache it found, what it signalled
\* and what the engines it loaded returned
Merged(data, fromSystemSettings, cached, reached, newEnginesData, s) ==
    [op |-> "fromMap", fromSystemSettings |-> fromSystemSettings, cached |-> cached,
     reached |-> reached, newEnginesData |-> newEnginesData, events |-> s.events,
     returned |-> s.returned, loads |-> s.loads,
     missingKey |-> EnginesAccepted(data) /\ data.count > Len(data.engines)]

EnginesCommit(data, fromSystemSettings, newEnginesData, s) ==
    /\ m_buildEngines' = s.engines
    /\ merged' = Merged(data, fromSystemSettings, m_buildEngines, TRUE, newEnginesData, s)

\* BuildEngineManager::fromMap(data, fromSystemSettings)
fromMap(data, fromSystemSettings) ==
    /\ live' = IF EnginesAccepted(data)
               THEN HostSettingsFromMap(live, data, fromSystemSettings) ELSE live
    /\ IF EnginesAccepted(data) /\ EnginesReadable(data)
       THEN EnginesCommit(data, fromSystemSettings, NewEnginesData(data),
                          MergedEngines(m_buildEngines, NewEnginesData(data),
                                        fromSystemSettings, useSystemSettingsOnly))
       ELSE /\ m_buildEngines' = m_buildEngines
            /\ merged' = Merged(data, fromSystemSettings, m_buildEngines, FALSE, EmptyMap,
                                MergeBegun(EmptyMap))
    /\ UNCHANGED <<kind, features, vmRunning, autoStop, acc, m_needsVmOff, lockDownOk,
                   setOk, pc, nPrepared, prepareFailed, log, errorString, exitCode,
                   exitStatus, notices, lastRequest, inWait>>
    /\ UNCHANGED <<targetVars, batchVars, runVars, argument>>

\* ---- the settings documents the merge is run on ----

CreationTimes == {1, 2}

\* the stored engines: engine A in every origin and age, with the port the
\* user chose or the one the system ships; engine B in both origins
EngineDatas ==
    {EngineData(UriA, t, a, 2222, 0, <<>>) : t \in CreationTimes, a \in BOOLEAN}
    \cup {EngineData(UriA, 1, TRUE, 2223, 0, <<>>)}
    \cup {EngineData(UriB, 1, a, 2222, 0, <<>>) : a \in BOOLEAN}

RECURSIVE EngineLists(_)
EngineLists(n) ==
    IF n = 0 THEN {<<>>}
    ELSE EngineLists(n - 1)
         \cup {Append(l, d) : l \in {k \in EngineLists(n - 1) : Len(k) = n - 1},
                              d \in EngineDatas}

EnginesDocument(version, installDir, count, engines, fromSystemSettings) ==
    [version |-> version, installDir |-> installDir,
     customBuildHostName |-> IF fromSystemSettings THEN <<"s">> ELSE <<"u">>,
     buildEnvironmentFilter |-> IF fromSystemSettings THEN <<"S">> ELSE <<"U">>,
     count |-> count, engines |-> engines]

InstallDir == <<"/", "o", "p", "t">>

\* documents as toMap writes them, and four that fromMap gives up on: another
\* version, no install directory, a missing key and an entry without URI
EnginesDocuments(fromSystemSettings) ==
    {EnginesDocument(SupportedEnginesVersion, InstallDir, Len(l), l, fromSystemSettings) :
         l \in EngineLists(MaxEngines)}
    \cup {EnginesDocument(SupportedEnginesVersion + 1, InstallDir, 0, <<>>,
                          fromSystemSettings),
          EnginesDocument(SupportedEnginesVersion, Empty, 0, <<>>, fromSystemSettings),
          EnginesDocument(SupportedEnginesVersion, InstallDir, 1, <<>>, fromSystemSettings),
          EnginesDocument(SupportedEnginesVersion, InstallDir, 1,
                          <<EngineData("", 1, FALSE, 2222, 0, <<>>)>>, fromSystemSettings)}

\* the lambda connected to UserSettings::updated in enableUpdates
userSettingsUpdated == \E data \in EnginesDocuments(FALSE) : fromMap(data, FALSE)

\* BuildEngineManager::checkSystemSettings, when the system file loads
checkSystemSettings == \E data \in EnginesDocuments(TRUE) : fromMap(data, TRUE)

InitEngines ==
    /\ kind = "engine"
    /\ features = AllFeatures
    /\ vmRunning = FALSE
    /\ autoStop = FALSE
    /\ InitTask
    /\ IdleTargets
    /\ IdleEngines

NextEngines ==
    \/ userSettingsUpdated
    \/ checkSystemSettings

SpecEngines == InitEngines /\ [][NextEngines]_vars

-----------------------------------------------------------------------------
(* Stored settings that carry build targets, and the refresh of a registered
   build engine from its targets.xml *)

\* BuildEnginePrivate::updateBuildTargets() of the engine at the index
engineUpdateBuildTargets(index, document) ==
    /\ index < Len(m_buildEngines)
    /\ m_buildEngines' =
           [m_buildEngines EXCEPT ![index + 1] =
               IF Accepted(document)
               THEN EngineReconciled(@, EngineTargetsUpdated(@, document.targets,
                                                             useSystemSettingsOnly))
               ELSE @]
    /\ merged' = [op |-> "updateBuildTargets", index |-> index,
                  accepted |-> Accepted(document)]
    /\ UNCHANGED <<propVars, targetVars, batchVars, runVars, argument>>

\* the lists of build targets stored with an engine or listed by its
\* targets.xml: none, target a, target a with its default snapshot, a
\* misnamed snapshot
StoredTargetLists ==
    {<<>>,
     <<BuildTargetDump(TargetA, Empty, "m1", Empty)>>,
     <<BuildTargetDump(TargetA, Empty, "m1", Empty),
       BuildTargetDump(SnapshotOfA, TargetA, "m1", Empty)>>,
     <<MisnamedSnapshot>>}

\* the lists stored with the key after the last entry missing
TruncatedTargetLists ==
    {<<>>, <<BuildTargetDump(TargetB, Empty, "m1", SuiteListing)>>}

\* engine A as created at two times, the younger one also with the key of its
\* first build target missing; engine B with its lists of build targets,
\* complete and with a key missing, and as the system ships it
LoadEngineDatas(vmUri) ==
    IF vmUri = UriA
    THEN {EngineData(UriA, t, FALSE, 2222, 0, <<>>) : t \in CreationTimes}
         \cup {EngineData(UriA, 2, FALSE, 2222, 1, <<>>)}
    ELSE {EngineData(UriB, 1, FALSE, 2222, Len(l), l) : l \in StoredTargetLists}
         \cup {EngineData(UriB, 1, FALSE, 2222, Len(l) + 1, l) : l \in TruncatedTargetLists}
         \cup {EngineData(UriB, 1, TRUE, 2222, 0, <<>>)}

\* the stored engines of a document: each URI once at most
LoadEngineLists ==
    {<<>>}
    \cup {<<a>> : a \in LoadEngineDatas(UriA)}
    \cup {<<b>> : b \in LoadEngineDatas(UriB)}
    \cup {<<a, b>> : a \in LoadEngineDatas(UriA), b \in LoadEngineDatas(UriB)}

\* documents as toMap writes them, and those whose last engine key is missing
LoadDocuments(fromSystemSettings) ==
    {EnginesDocument(SupportedEnginesVersion, InstallDir, Len(l), l, fromSystemSettings) :
         l \in LoadEngineLists}
    \cup {EnginesDocument(SupportedEnginesVersion, InstallDir, Len(l) + 1, l,
                          fromSystemSettings) :
              l \in {k \in LoadEngineLists : Len(k) < 2 /\ \A i \in 1..Len(k) : k[i].vmUri = UriA}}

\* the targets.xml documents of a registered engine
RefreshDocuments ==
    {Unreadable}
    \cup [hasError : {FALSE}, version : {SupportedVersion}, targets : StoredTargetLists]

loadUserSettings == \E data \in LoadDocuments(FALSE) : fromMap(data, FALSE)

loadSystemSettings == \E data \in LoadDocuments(TRUE) : fromMap(data, TRUE)

refreshBuildTargets ==
    \E index \in 0..1, document \in RefreshDocuments :
        engineUpdateBuildTargets(index, document)

NextLoads ==
    \/ loadUserSettings
    \/ loadSystemSettings
    \/ refreshBuildTargets

SpecLoads == InitEngines /\ [][NextLoads]_vars

-----------------------------------------------------------------------------
(* The asynchronous operations of a build engine as a state machine *)

NextBatch ==
    \/ \E context \in Contexts :
        setSharedSrcPath(context) /\ UNCHANGED <<propVars, targetVars, m_buildEngines, merged, runVars, argument>>
    \/ \E i \in 1..Len(asyncCalls), ok \in BOOLEAN :
        setSharedSrcPathFinished(i, ok) /\ UNCHANGED <<propVars, targetVars, m_buildEngines, merged, runVars, argument>>
    \/ \E context \in Contexts :
        setSshPort(context) /\ UNCHANGED <<propVars, targetVars, m_buildEngines, merged, runVars, argument>>
    \/ \E i \in 1..Len(asyncCalls), ok \in BOOLEAN :
        setSshPortFinished(i, ok) /\ UNCHANGED <<propVars, targetVars, m_buildEngines, merged, runVars, argument>>
    \/ \E context \in Contexts :
        setDBusPort(context) /\ UNCHANGED <<propVars, targetVars, m_buildEngines, merged, runVars, argument>>
    \/ \E i \in 1..Len(asyncCalls), ok \in BOOLEAN :
        setDBusPortFinished(i, ok) /\ UNCHANGED <<propVars, targetVars, m_buildEngines, merged, runVars, argument>>
    \/ \E gpgAvailable \in BOOLEAN, context \in Contexts :
        importPrivateGpgKey(gpgAvailable, context) /\ UNCHANGED <<propVars, targetVars, m_buildEngines, merged, runVars, argument>>
    \/ \E i \in 1..Len(asyncCalls), ok \in BOOLEAN :
        importPrivateGpgKeyFinished(i, ok) /\ UNCHANGED <<propVars, targetVars, m_buildEngines, merged, runVars, argument>>
    \/ \E context \in Contexts :
        updateVmProperties(context) /\ UNCHANGED <<propVars, targetVars, m_buildEngines, merged, runVars, argument>>
    \/ \E i \in 1..Len(asyncCalls), ok \in BOOLEAN, info \in CachedInfos :
        updateVmPropertiesFinished(i, ok, info) /\ UNCHANGED <<propVars, targetVars, m_buildEngines, merged, runVars, argument>>
    \/ \E initOk \in BOOLEAN, context \in Contexts :
        createBuildEngine(initOk, context) /\ UNCHANGED <<propVars, targetVars, m_buildEngines, merged, runVars, argument>>
    \/ \E i \in 1..Len(asyncCalls), ok \in BOOLEAN, valid \in BOOLEAN :
        createBuildEngineFinished(i, ok, valid) /\ UNCHANGED <<propVars, targetVars, m_buildEngines, merged, runVars, argument>>
    \/ fetchDBusNonce /\ UNCHANGED <<propVars, targetVars, m_buildEngines, merged, runVars, argument>>
    \/ \E i \in 1..Len(m_queue), ok \in BOOLEAN :
        runnerFinished(i, ok) /\ UNCHANGED <<propVars, targetVars, m_buildEngines, merged, runVars, argument>>
    \/ \E context \in Contexts :
        contextDestroyed(context) /\ UNCHANGED <<propVars, targetVars, m_buildEngines, merged, runVars, argument>>

SpecBatch == InitEngines /\ [][NextBatch]_vars

\* every started runner completes: the proviso under which the queue is said
\* not to stall
RunnerCompletes ==
    \E i \in 1..Len(m_queue), ok \in BOOLEAN :
        runnerFinished(i, ok) /\ UNCHANGED <<propVars, targetVars, m_buildEngines, merged, runVars, argument>>

SpecBatchFair == SpecBatch /\ WF_vars(RunnerCompletes)

-----------------------------------------------------------------------------
(* Worker::run as a state machine *)

\* what doRun may return: its status, and the exit code it has set
DoRunOutcomes ==
    {<<"NormalExit", "EXIT_SUCCESS">>, <<"NormalExit", "EXIT_FAILURE">>,
     <<"BadUsage", "unset">>}

InitRun ==
    /\ kind = "engine"
    /\ features = AllFeatures
    /\ vmRunning = FALSE
    /\ autoStop = FALSE
    /\ InitTask
    /\ IdleTargets
    /\ m_buildEngines = <<>>
    /\ merged = [op |-> "none"]
    /\ IdleBatch
    /\ command \in Commands
    /\ runArguments \in ArgumentLists
    /\ runPc = "commandLineFilter"

NextRun ==
    \/ runCommandLineFilter /\ UNCHANGED <<targetVars, m_buildEngines, merged, batchVars, argument>>
    \/ runPreRun /\ UNCHANGED <<targetVars, m_buildEngines, merged, batchVars, argument>>
    \/ \E outcome \in DoRunOutcomes :
        runDoRun(outcome[1], outcome[2]) /\ UNCHANGED <<targetVars, m_buildEngines, merged, batchVars, argument>>
    \/ runPostRun /\ UNCHANGED <<targetVars, m_buildEngines, merged, batchVars, argument>>

SpecRun == InitRun /\ [][NextRun]_vars

-----------------------------------------------------------------------------
(* The property-setting command while the build engine's VM is refreshed *)

\* the completion handler of refreshConfiguration in updateVmProperties, run by
\* the event loop in which execAsynchronous() waits: setSshParameters, setDBusPort
VmPropertiesRefreshed(info) ==
    /\ kind = "engine"
    /\ TaskRegistered
    /\ inWait
    /\ live' = [live EXCEPT !.sshPort = info.sshPort, !.dBusPort = info.dBusPort]
    /\ UNCHANGED <<kind, features, vmRunning, autoStop, acc, m_needsVmOff, lockDownOk,
                   setOk, pc, nPrepared, prepareFailed, log, errorString, exitCode,
                   exitStatus, notices, lastRequest, inWait>>

NextRefresh ==
    \/ Next
    \/ \E info \in CachedInfos :
        VmPropertiesRefreshed(info) /\ UNCHANGED <<targetVars, engineVars, argument>>

SpecRefresh == Init /\ [][NextRefresh]_vars

-----------------------------------------------------------------------------
(* Properties of the property-setting command *)

\* the setters of the resources, as named in the log
SetterOps ==
    {"setMemorySizeMb", "setSwapSizeMb", "setCpuCount", "setStorageSizeMb",
     "reserveStorageSizeMb", "setDisplayProperties", "Emulator::setSshPort",
     "setSshParameters", "setCustomBuildHostName", "setBuildEnvironmentFilter",
     "BuildEngine::setSshPort", "setDBusPort", "setWwwProxy"}

\* the two setters of the build engine manager that setOthers() calls unguarded
UnguardedOps == {"setCustomBuildHostName", "setBuildEnvironmentFilter"}

LockDownOps == {"lockDown(true)", "lockDown(false)"}

Positions(ops) == {i \in 1..Len(log) : log[i].op \in ops}

Started == Positions({"started"}) # {}

\* SetPropertiesTask::set has been called and has returned
SetReturned == pc = "done" /\ exitStatus = "NormalExit" /\ ~prepareFailed

\* lockDown(true) has been requested and has succeeded
LockedDownAt == {i \in Positions({"lockDown(true)"}) : log[i].ok}

(* C1: once prepareSet has failed for an assignment, the command ends with
   EXIT_FAILURE without calling set: nothing is started, no setter is
   invoked, the virtual machine is never locked down, and the resource keeps
   its values. *)
C1_PrepareFailureAborts ==
    prepareFailed =>
        /\ pc = "done"
        /\ log = <<>>
        /\ live = InitialLive
        /\ ~lockDownOk
        /\ exitCode = "EXIT_FAILURE"

\* the second assignment fails after the first one staged a change needing the VM off
C1_Witness ==
    /\ prepareFailed
    /\ nPrepared = 2
    /\ m_needsVmOff
    /\ acc # NewAccessor(InitialLive)

(* C2 as stated: every setter that Apply invokes is invoked with a staged
   value that differs from the current one. *)
C2_EverySetterGuarded ==
    \A i \in Positions(SetterOps) : log[i].staged # log[i].current

(* C2 amended: every setter other than setCustomBuildHostName and
   setBuildEnvironmentFilter is invoked only with a staged value that differs
   from the current one; the build engine's setOthers() invokes
   setBuildEnvironmentFilter always and setCustomBuildHostName whenever
   build.host-name was assigned, whatever the values. *)
C2_GuardedSettersOnly ==
    /\ \A i \in Positions(SetterOps \ UnguardedOps) : log[i].staged # log[i].current
    /\ (kind = "engine" /\ pc \in {"engine.sshPort", "engine.sshTimeout", "engine.dBusPort"})
        => /\ Positions({"setBuildEnvironmentFilter"}) # {}
           /\ acc.m_hostNameChanged <=> Positions({"setCustomBuildHostName"}) # {}

\* an Apply that ran with the virtual machine locked down and found nothing to change
C2_Witness ==
    /\ kind = "emulator"
    /\ SetReturned
    /\ LockedDownAt # {}
    /\ Positions(SetterOps) = {}
    /\ exitCode = "EXIT_SUCCESS"

(* C3: when set has started with a staged change that needs the virtual
   machine off, the machine reliably running and automatic stopping not
   enabled, it fails with the 'please stop' message: no lockDown is requested,
   no setter is invoked and the resource keeps its values. *)
C3_RunningVmIsNotStopped ==
    (Started /\ m_needsVmOff /\ vmRunning /\ ~autoStop) =>
        /\ pc = "done"
        /\ errorString = stopVmMessage
        /\ exitCode = "EXIT_FAILURE"
        /\ Positions(LockDownOps) = {}
        /\ Positions(SetterOps) = {}
        /\ live = InitialLive

C3_Witness ==
    /\ Started
    /\ m_needsVmOff
    /\ vmRunning
    /\ ~autoStop
    /\ SetReturned
    /\ nPrepared = 2

(* C4: whenever lockDown(true) has succeeded, set has, by the time it
   notifies its exit, requested lockDown(false) exactly once, after the last
   setter call and immediately before the exit notification; lockDown(false)
   is never requested otherwise. *)
C4_LockDownRestored ==
    /\ Positions({"lockDown(false)"}) # {} => LockedDownAt # {}
    /\ (LockedDownAt # {} /\ Positions({"exited"}) # {}) =>
        /\ Positions({"lockDown(false)"}) = {Len(log) - 1}
        /\ Positions({"exited"}) = {Len(log)}
        /\ \A i \in Positions(SetterOps) :
              \A j \in LockedDownAt : j < i /\ i < Len(log) - 1

\* the restore is requested on the path where a setter has failed
C4_Witness ==
    /\ SetReturned
    /\ LockedDownAt # {}
    /\ \E i \in Positions(SetterOps) : ~log[i].ok
    /\ exitCode = "EXIT_FAILURE"

(* C5 as stated: the command reports EXIT_SUCCESS only if every setter that
   was invoked succeeded, and a failed setter yields the aggregate failure
   message. *)
C5_SuccessOnlyIfAllSettersSucceeded ==
    SetReturned =>
        /\ exitCode = "EXIT_SUCCESS" => \A i \in Positions(SetterOps) : log[i].ok
        /\ (\E i \in Positions(SetterOps) : ~log[i].ok) => errorString = FailedToSetSome

(* C6 as stated: every call of set notifies exited() exactly once. *)
C6_ExitedOnceOnEveryPath ==
    SetReturned => Cardinality(Positions({"exited"})) = 1

(* C6 amended: a call of set that canSet() rejects returns before started()
   and notifies nothing; every other call notifies started() once and then
   exited() exactly once, as its last notification, whether it succeeds, fails
   the precondition, fails to lock down or fails to apply. *)
C6_ExitedOnceAfterStarted ==
    /\ Cardinality(Positions({"exited"})) <= 1
    /\ Positions({"exited"}) # {} => pc = "done"
    /\ SetReturned =>
        IF AccessorCanSet(kind, acc)
        THEN /\ Positions({"started"}) = {1}
             /\ Positions({"exited"}) = {Len(log)}
        ELSE /\ log = <<>>
             /\ exitCode = "EXIT_FAILURE"

\* exited() on the path where lockDown(true) has failed
C6_Witness ==
    /\ SetReturned
    /\ \E i \in Positions({"lockDown(true)"}) : ~log[i].ok
    /\ Positions({"exited"}) = {Len(log)}

(* C7: every beginStop, beginContinue and beginTerminate request is
   answered, before the handler returns, by exactly one end* call of the same
   kind; only beginTerminate prints the wait notice. *)
C7_RequestsAcknowledged ==
    /\ lastRequest.kind = "none" => lastRequest.acks = <<>>
    /\ lastRequest.kind = "stop" => lastRequest.acks = <<"endStop">>
    /\ lastRequest.kind = "continue" => lastRequest.acks = <<"endContinue">>
    /\ lastRequest.kind = "terminate" => lastRequest.acks = <<"endTerminate">>
    /\ lastRequest.notice <=> lastRequest.kind = "terminate"

\* a terminate request delivered while the task waits for a setter
C7_Witness ==
    /\ lastRequest.kind = "terminate"
    /\ lastRequest.acks = <<"endTerminate">>
    /\ Positions(SetterOps) # {}

-----------------------------------------------------------------------------
(* Properties of the build-target reconciliation *)

Refreshed(r) == r.op = "updateBuildTargets"

\* the cached indices the refresh has removed
RemovedIndices(r) == {r.toRemove[k] : k \in 1..Len(r.toRemove)}

\* the index a surviving entry has after the removals
ShiftedIndex(i, removed) == i - Cardinality({j \in removed : j < i})

\* the dump a surviving entry holds after the refresh
Survivor(i, old, r) ==
    IF \E k \in 1..Len(r.updated) : r.updated[k].index = i
    THEN r.updated[CHOOSE k \in 1..Len(r.updated) : r.updated[k].index = i].target
    ELSE old

C8_SecondRunIsSilent ==
    (Refreshed(run') /\ run'.repeated) =>
        /\ run'.events = <<>>
        /\ run'.updated = <<>>
        /\ run'.toRemove = <<>>
        /\ buildTargets' = buildTargets
        /\ buildTargetsData' = buildTargetsData
        /\ toolsDirs' = toolsDirs

(* C8: a refresh that follows an accepted refresh from the same list of
   targets emits no aboutToRemoveBuildTarget and no buildTargetAdded, updates
   no entry in place, re-initializes no wrappers, and leaves both cached lists
   as they were. *)
C8_ReconciliationIdempotent == [][C8_SecondRunIsSilent]_vars

\* the same list read twice, a list from which the sanity check drops a candidate
C8_Witness ==
    /\ Refreshed(run)
    /\ run.repeated
    /\ buildTargets # <<>>
    /\ Len(run.targets) > Len(buildTargets)

C9_SurvivorsKeepTheirPlace ==
    (Refreshed(run') /\ run'.accepted) =>
        \A i \in (0..(Len(buildTargets) - 1)) \ RemovedIndices(run') :
            /\ ShiftedIndex(i, RemovedIndices(run')) < Len(buildTargets')
            /\ buildTargets'[ShiftedIndex(i, RemovedIndices(run')) + 1]
                  = Survivor(i, buildTargets[i + 1], run')
            /\ buildTargetsData'[ShiftedIndex(i, RemovedIndices(run')) + 1]
                  = buildTargetsData[i + 1]
            /\ buildTargets'[ShiftedIndex(i, RemovedIndices(run')) + 1].name
                  = buildTargets[i + 1].name

(* C9: after a reconciliation every cached entry that was kept or updated
   in place is found at its old index minus the number of removed entries
   that had a smaller index, so the survivors keep their relative order. *)
C9_IndicesShiftOnlyByRemovals == [][C9_SurvivorsKeepTheirPlace]_vars

\* the first of two entries was removed, the second updated in place and moved up
C9_Witness ==
    /\ Refreshed(run)
    /\ run.accepted
    /\ run.toRemove = <<0>>
    /\ Len(run.updated) = 1
    /\ run.updated[1].index = 1
    /\ buildTargets = <<run.updated[1].target>>

C10_RejectedRefreshChangesNothing ==
    (Refreshed(run') /\ (run'.hasError \/ run'.version # 4)) =>
        /\ ~run'.accepted
        /\ run'.events = <<>>
        /\ buildTargets' = buildTargets
        /\ buildTargetsData' = buildTargetsData
        /\ toolsDirs' = toolsDirs

(* C10: a refresh from a targets.xml that cannot be read, or whose version
   is not exactly 4, leaves both cached lists unchanged and emits neither
   buildTargetAdded nor aboutToRemoveBuildTarget. *)
C10_UnusableDocumentIgnored == [][C10_RejectedRefreshChangesNothing]_vars

\* a version 3 document listing another target than the cached ones
C10_Witness ==
    /\ Refreshed(run)
    /\ ~run.hasError
    /\ run.version = 3
    /\ ~run.accepted
    /\ Len(buildTargets) = 2
    /\ buildTargets[1] # Outdated.targets[1]

-----------------------------------------------------------------------------
(* The registry of build engines after BuildEngineManager::fromMap *)

\* the last step was a merge that got as far as the loop over the cached engines
MergeReached(m) == m.op = "fromMap" /\ m.reached

\* aboutToRemoveBuildEngine was emitted for the cached engine
DroppedBy(m, engine) ==
    \E k \in 1..Len(m.events) :
        /\ m.events[k].name = "aboutToRemoveBuildEngine"
        /\ m.events[k].vmUri = engine.vmUri

\* the cached engines whose identity is not in the merged data
AbsentEngines(m) ==
    {i \in 1..Len(m.cached) : ~inNewData(m.cached[i], m.newEnginesData)}

\* the cached engines whose identity is in the merged data
PresentEngines(m) ==
    {i \in 1..Len(m.cached) : inNewData(m.cached[i], m.newEnginesData)}

\* the engine is in the registry, as the very same entry
StillRegistered(engine) ==
    \E j \in 1..Len(m_buildEngines) : m_buildEngines[j] = engine

(* C11 as stated: a cached engine whose identity is absent from the merged
   data is dropped exactly when it is not auto-detected or the data is of
   user scope. *)
C11_AbsentDroppedUnlessAutodetected ==
    MergeReached(merged) =>
        \A i \in AbsentEngines(merged) :
            DroppedBy(merged, merged.cached[i])
                <=> (~merged.cached[i].autodetected \/ ~merged.fromSystemSettings)

(* C11: a cached engine whose identity (URI and creation time) is absent
   from the merged data is dropped exactly when the data is of user scope or
   the engine is auto-detected; an engine that is not auto-detected survives
   a merge of system data that does not list it. *)
C11_AbsentDroppedIfUserScopeOrAutodetected ==
    MergeReached(merged) =>
        \A i \in AbsentEngines(merged) :
            /\ DroppedBy(merged, merged.cached[i])
                   <=> (merged.cached[i].autodetected \/ ~merged.fromSystemSettings)
            /\ DroppedBy(merged, merged.cached[i]) \/ StillRegistered(merged.cached[i])

\* system data listing nothing met an auto-detected and a hand-made engine:
\* the first was dropped, the second is all that is left
C11_Witness ==
    /\ MergeReached(merged)
    /\ merged.fromSystemSettings
    /\ Len(merged.cached) = 2
    /\ AbsentEngines(merged) = {1, 2}
    /\ merged.cached[1].autodetected
    /\ ~merged.cached[2].autodetected
    /\ DroppedBy(merged, merged.cached[1])
    /\ m_buildEngines = <<merged.cached[2]>>

\* the cached auto-detected engines whose identity is in the merged data
PresentAutodetected(m) == {i \in PresentEngines(m) : m.cached[i].autodetected}

\* the registry holds an engine of the URI with the configuration of the data
ConfiguredAs(engineData) ==
    \E j \in 1..Len(m_buildEngines) :
        /\ m_buildEngines[j].vmUri = engineData.vmUri
        /\ m_buildEngines[j].sshPort = engineData.sshPort

(* C12 as stated: when system data is merged, an auto-detected engine that
   is in the data is not removed and afterwards is configured as the system
   data says, also where the cached copy said otherwise. *)
C12_SystemDataTakesPrecedence ==
    (MergeReached(merged) /\ merged.fromSystemSettings) =>
        \A i \in PresentAutodetected(merged) :
            /\ ~DroppedBy(merged, merged.cached[i])
            /\ ConfiguredAs(merged.newEnginesData[merged.cached[i].vmUri])

(* C12: when system data is merged, an auto-detected engine whose identity
   is in the data is not removed, and it stays in the registry exactly as it
   was cached: the system data for it is discarded, so the configuration of
   the cached copy wins wherever the two differ. *)
C12_CachedCopyPreserved ==
    (MergeReached(merged) /\ merged.fromSystemSettings) =>
        \A i \in PresentAutodetected(merged) :
            /\ ~DroppedBy(merged, merged.cached[i])
            /\ StillRegistered(merged.cached[i])

\* the cache holds auto-detected engine A on port 2223, the system data has
\* it on port 2222: it is still on port 2223
C12_Witness ==
    /\ MergeReached(merged)
    /\ merged.fromSystemSettings
    /\ \E i \in PresentAutodetected(merged) :
           /\ merged.cached[i].sshPort = 2223
           /\ merged.newEnginesData[merged.cached[i].vmUri].sshPort = 2222
           /\ StillRegistered(merged.cached[i])
           /\ ~ConfiguredAs(merged.newEnginesData[merged.cached[i].vmUri])

\* a merge of user data follows a merge of system data
UserAfterSystem ==
    /\ MergeReached(merged)
    /\ merged.fromSystemSettings
    /\ MergeReached(merged')
    /\ ~merged'.fromSystemSettings

\* the registered auto-detected engines the system data listed and the user
\* data merged next does not
SystemOnlyEngines ==
    {i \in 1..Len(m_buildEngines) :
        /\ m_buildEngines[i].autodetected
        /\ inNewData(m_buildEngines[i], merged.newEnginesData)
        /\ ~inNewData(m_buildEngines[i], merged'.newEnginesData)}

C13_SystemListedEngineKept ==
    UserAfterSystem =>
        \A i \in SystemOnlyEngines :
            /\ ~DroppedBy(merged', m_buildEngines[i])
            /\ \E j \in 1..Len(m_buildEngines') : m_buildEngines'[j] = m_buildEngines[i]

(* C13 as stated: an auto-detected engine that the system data lists and
   newly merged user data does not is preserved by the merge of the user
   data: no aboutToRemoveBuildEngine for it, the same entry remains. *)
C13_SystemListedEngineSurvivesUserMerge == [][C13_SystemListedEngineKept]_vars

C13_SystemListedEngineDropped ==
    UserAfterSystem =>
        \A i \in SystemOnlyEngines :
            /\ DroppedBy(merged', m_buildEngines[i])
            /\ \A j \in 1..Len(m_buildEngines') : m_buildEngines'[j] # m_buildEngines[i]

(* C13: an auto-detected engine that the system data lists and newly merged
   user data does not is dropped by the merge of the user data, like every
   engine absent from user data: aboutToRemoveBuildEngine is emitted for it
   and the entry is gone from the registry. *)
C13_UserMergeDropsSystemListedEngine == [][C13_SystemListedEngineDropped]_vars

\* user data merged into a cache holding an auto-detected engine it does not
\* list: the engine was announced as removed and is gone
C13_Witness ==
    /\ MergeReached(merged)
    /\ ~merged.fromSystemSettings
    /\ \E i \in AbsentEngines(merged) :
           /\ merged.cached[i].autodetected
           /\ merged.cached[i].vmUri \notin DOMAIN merged.newEnginesData
           /\ DroppedBy(merged, merged.cached[i])
           /\ ~StillRegistered(merged.cached[i])

-----------------------------------------------------------------------------
(* What Prepare accepts, one assignment at a time *)

\* the step has read an assignment and handed it to prepareSet
Read == nPrepared' = nPrepared + 1

\* where the character stands first in the text, 0 when it is not in it
FirstAt(text, c) ==
    IF \E i \in 1..Len(text) : text[i] = c
    THEN CHOOSE i \in 1..Len(text) : text[i] = c /\ \A j \in 1..(i - 1) : text[j] # c
    ELSE 0

\* the name and the value of the assignment `name=value`
GivenName(assignment) == SubSeq(assignment, 1, FirstAt(assignment, "=") - 1)
GivenValue(assignment) ==
    SubSeq(assignment, FirstAt(assignment, "=") + 1, Len(assignment))

\* the step has read an assignment to the property
ReadFor(name) == Read /\ GivenName(argument') = name

\* the port-number properties of the command and the members they are staged in
PortProperties(k) ==
    IF k = "emulator" THEN {<<EMULATOR_SSH_PORT, "m_sshPort">>}
    ELSE IF k = "engine"
    THEN {<<ENGINE_SSH_PORT, "m_sshPort">>, <<ENGINE_DBUS_PORT, "m_dBusPort">>}
    ELSE {}

\* the text is a decimal integer from 1024 to 65535
InPortRange(value) ==
    toInt(value).ok /\ toInt(value).value >= 1024 /\ toInt(value).value <= 65535

PortPrepared(member, value) ==
    /\ ~prepareFailed' <=> InPortRange(value)
    /\ InPortRange(value) => acc'[member] = toInt(value).value
    /\ ~InPortRange(value) => acc' = acc
    /\ (toInt(value).ok /\ toInt(value).value > 0 /\ toInt(value).value < 1024)
           => errorString' = "Privileged ports may not be used"
    /\ (toInt(value).ok /\ toInt(value).value > 65535)
           => errorString' = "Value too big"

C14_PortPrepared ==
    \A property \in PortProperties(kind) :
        ReadFor(property[1]) => PortPrepared(property[2], GivenValue(argument'))

(* C14: Prepare accepts an assignment to a port-number property (ssh.port,
   dbus.port) exactly when the value is a decimal integer from 1024 to
   65535; a positive value below 1024 is rejected with 'Privileged ports may
   not be used', a value above 65535 with 'Value too big', and a rejection
   leaves the staged port as it was. *)
C14_PortAcceptedExactlyInRange == [][C14_PortPrepared]_vars

\* ssh.port=2223 was staged, then ssh.port=80 was rejected: 2223 is still staged
C14_Witness ==
    /\ kind = "engine"
    /\ nPrepared = 2
    /\ GivenName(argument) = ENGINE_SSH_PORT
    /\ toInt(GivenValue(argument)).value = 80
    /\ prepareFailed
    /\ errorString = PrivilegedPorts
    /\ acc.m_sshPort = 2223
    /\ live.sshPort = 2222

\* the VM properties bounded by the host, and the host's limit
HostBounded ==
    {<<VM_CPU_COUNT, availableCpuCount>>, <<VM_MEMORY_SIZE_MB, availableMemorySizeMb>>}

\* the step has read an assignment of more than the limit to the property
ReadAbove(property) ==
    /\ kind # "sdk"
    /\ ReadFor(property[1])
    /\ toInt(GivenValue(argument')).ok
    /\ toInt(GivenValue(argument')).value > property[2]

C15_TooBigPrepared ==
    \A property \in HostBounded :
        ReadAbove(property) =>
            /\ prepareFailed'
            /\ errorString' = "Value too big"
            /\ live' = live
            /\ log' = log

(* C15 as stated: Prepare rejects a vm.cpu-count or vm.memory-size above
   what the host has with 'Value too big', and the resource is not touched. *)
C15_AboveHostRejectedAsTooBig == [][C15_TooBigPrepared]_vars

C15_AboveHostPrepared ==
    \A property \in HostBounded :
        ReadAbove(property) =>
            /\ prepareFailed'
            /\ pc' = "done"
            /\ errorString' = IF "LimitMemorySize" \in features
                              THEN "Value too big" ELSE "Read-only property"
            /\ live' = live
            /\ log' = log

(* C15: Prepare rejects a vm.cpu-count or vm.memory-size above what the host
   has, the command ends and the resource is not touched; the message is
   'Value too big' when the virtual machine has the LimitMemorySize
   capability and 'Read-only property' when it has not. *)
C15_AboveHostRejected == [][C15_AboveHostPrepared]_vars

\* vm.cpu-count=999999 on a host with 8 CPUs: rejected, the machine keeps its 2
C15_Witness ==
    /\ "LimitMemorySize" \in features
    /\ GivenName(argument) = VM_CPU_COUNT
    /\ toInt(GivenValue(argument)).value = 999999
    /\ prepareFailed
    /\ pc = "done"
    /\ errorString = valueTooBigMessage
    /\ live.cpuCount = 2
    /\ log = <<>>

\* the size part of a free-storage value: the text before the first comma, or
\* all of it when there is no comma
SizePart(value) ==
    IF FirstAt(value, ",") > 0 THEN SubSeq(value, 1, FirstAt(value, ",") - 1)
    ELSE value

EndsWithPlus(text) == Len(text) > 0 /\ text[Len(text)] = "+"

C16_FixedSizePrepared ==
    (/\ kind # "sdk"
     /\ ReadFor(VM_FREE_STORAGE_SIZE_MB)
     /\ ~EndsWithPlus(SizePart(GivenValue(argument')))) =>
        /\ prepareFailed'
        /\ pc' = "done"
        /\ errorString' = "Value cannot be decreased"

(* C16: whatever its numeric value, a vm.free-storage-size value whose size
   part (the text before the first comma, or the whole value) does not end
   with '+' is rejected by Prepare with 'Value cannot be decreased'. *)
C16_FreeStorageWithoutPlusRejected == [][C16_FixedSizePrepared]_vars

\* vm.free-storage-size=5000,100+ has its '+' after the comma only: rejected
\* before anything was staged
C16_Witness ==
    /\ kind = "emulator"
    /\ nPrepared = 1
    /\ GivenName(argument) = VM_FREE_STORAGE_SIZE_MB
    /\ EndsWithPlus(GivenValue(argument))
    /\ ~EndsWithPlus(SizePart(GivenValue(argument)))
    /\ prepareFailed
    /\ errorString = valueCannotBeDecreasedMessage
    /\ acc = NewAccessor(live)

\* the texts of the two dictionaries
BooleanTexts == {<<"y", "e", "s">>, <<"n", "o">>}
OrientationTexts ==
    {<<"p", "o", "r", "t", "r", "a", "i", "t">>,
     <<"l", "a", "n", "d", "s", "c", "a", "p", "e">>}

\* the assignment of a text out of a dictionary: what is shown for a value is
\* parsed as that value, and no text but those of the dictionary is parsed
DictionaryPrepared(member, text, texts, shownFalse, shownTrue, false, true) ==
    /\ text = shownFalse => (~prepareFailed' /\ acc'[member] = false)
    /\ text = shownTrue => (~prepareFailed' /\ acc'[member] = true)
    /\ text \notin texts =>
           (prepareFailed' /\ acc' = acc /\ errorString' = OneOfExpected)

C17_DictionaryPrepared ==
    kind = "emulator" =>
        /\ ReadFor(EMULATOR_DOWNSCALE) =>
               DictionaryPrepared("m_downscale", GivenValue(argument'), BooleanTexts,
                                  showBoolean(FALSE), showBoolean(TRUE), FALSE, TRUE)
        /\ ReadFor(EMULATOR_ORIENTATION) =>
               DictionaryPrepared("m_orientation", GivenValue(argument'),
                                  OrientationTexts, showOrientation(Vertical),
                                  showOrientation(Horizontal), Vertical, Horizontal)

(* C17: for every entry of the boolean dictionary (yes/no) and of the
   orientation dictionary (portrait/landscape), what show* prints is parsed
   by parse* with success and gives the original value back; a string that is
   not in the dictionary is not parsed. *)
C17_DictionaryRoundTrip == [][C17_DictionaryPrepared]_vars

\* downscale and orientation staged from what is shown for true and for
\* horizontal, neither being the value the emulator has
C17_Witness ==
    /\ kind = "emulator"
    /\ nPrepared = 2
    /\ GivenName(argument) = EMULATOR_ORIENTATION
    /\ GivenValue(argument) = showOrientation(Horizontal)
    /\ ~prepareFailed
    /\ acc.m_downscale = TRUE
    /\ ~live.viewScaled
    /\ acc.m_orientation = Horizontal
    /\ live.orientation = Vertical

\* the assignment asks for something the virtual machine is not capable of
OutsideCapability(name, value) ==
    \/ name \in {VM_MEMORY_SIZE_MB, VM_CPU_COUNT} /\ "LimitMemorySize" \notin features
    \/ name = VM_SWAP_SIZE_MB /\ "SwapMemory" \notin features
    \/ /\ name = VM_STORAGE_SIZE_MB
       /\ toInt(value).ok
       /\ \/ toInt(value).value > live.storageSizeMb /\ "GrowStorageSize" \notin features
          \/ /\ toInt(value).value > 0
             /\ toInt(value).value < live.storageSizeMb
             /\ "ShrinkStorageSize" \notin features

\* the message the code gives for it
OutsideCapabilityMessage(name, value) ==
    IF name \in {VM_MEMORY_SIZE_MB, VM_CPU_COUNT} THEN "Read-only property"
    ELSE IF name = VM_SWAP_SIZE_MB THEN "Unrecognized property"
    ELSE IF toInt(value).value > live.storageSizeMb THEN "Value cannot be increased"
    ELSE "Value cannot be decreased"

\* the step has read an assignment outside the capabilities
ReadOutsideCapability ==
    /\ kind # "sdk"
    /\ Read
    /\ OutsideCapability(GivenName(argument'), GivenValue(argument'))

C18_ReadOnlyPrepared ==
    ReadOutsideCapability => (prepareFailed' /\ errorString' = "Read-only property")

(* C18 as stated: an assignment to a VM property (memory size, CPU count,
   swap size, storage growth or shrink) that the capabilities of the virtual
   machine do not cover is rejected by Prepare with 'Read-only property'. *)
C18_OutsideCapabilityIsReadOnly == [][C18_ReadOnlyPrepared]_vars

C18_OutsideCapabilityPrepared ==
    ReadOutsideCapability =>
        /\ prepareFailed'
        /\ pc' = "done"
        /\ errorString' = OutsideCapabilityMessage(GivenName(argument'),
                                                   GivenValue(argument'))
        /\ live' = live

(* C18: an assignment to a VM property that the capabilities of the virtual
   machine do not cover is rejected by Prepare: vm.memory-size and
   vm.cpu-count without LimitMemorySize with 'Read-only property', whatever
   the value; vm.swap-size without SwapMemory with 'Unrecognized property';
   vm.storage-size above the current size without GrowStorageSize with
   'Value cannot be increased' and below it without ShrinkStorageSize with
   'Value cannot be decreased'. *)
C18_OutsideCapabilityRejected == [][C18_OutsideCapabilityPrepared]_vars

\* vm.memory-size given to a machine without LimitMemorySize
C18_Witness ==
    /\ kind = "engine"
    /\ "LimitMemorySize" \notin features
    /\ nPrepared = 1
    /\ GivenName(argument) = VM_MEMORY_SIZE_MB
    /\ prepareFailed
    /\ errorString = readOnlyPropertyMessage
    /\ acc = NewAccessor(live)

-----------------------------------------------------------------------------
(* The cross-field check of the SDK proxy properties *)

\* what is staged asks for a proxy and names no server
ProxyWithoutServers ==
    /\ acc.m_wwwProxyType \in {<<"m", "a", "n", "u", "a", "l">>,
                               <<"a", "u", "t", "o", "m", "a", "t", "i", "c">>}
    /\ acc.m_wwwProxyServers = <<>>

(* C19: when every assignment has been staged and the staged proxy type is
   manual or automatic while the staged list of servers is empty, in
   whichever order the two were assigned, the cross-field check rejects the
   batch: the command fails, the task is not started and no setter is
   invoked, so nothing is applied. *)
C19_ProxyWithoutServersRejected ==
    (kind = "sdk" /\ SetReturned /\ ProxyWithoutServers) =>
        /\ log = <<>>
        /\ live = InitialLive
        /\ exitCode = "EXIT_FAILURE"
        /\ errorString = ProxyServersEmpty

\* two assignments staged, the type and the empty list of servers, and rejected
C19_Witness ==
    /\ kind = "sdk"
    /\ SetReturned
    /\ nPrepared = 2
    /\ acc.m_wwwProxyType = WWW_PROXY_AUTOMATIC
    /\ acc.m_wwwProxyServers = Empty
    /\ log = <<>>
    /\ errorString = ProxyServersEmpty

-----------------------------------------------------------------------------
(* The deprecated camel-case names of the properties *)

\* assignments given with a camel-case name, with the canonical name (a '-'
\* before each uppercase letter, the letter in lower case) and the value
CamelCaseGiven ==
    { [given |-> <<"v", "m", ".", "c", "p", "u", "C", "o", "u", "n", "t", "=", "4">>,   \* vm.cpuCount=4
       name |-> VM_CPU_COUNT, value |-> <<"4">>]
    , [given |-> <<"v", "m", ".", "c", "p", "u", "C", "o", "u", "n", "t", "=", "a", "b", "c">>,   \* vm.cpuCount=abc
       name |-> VM_CPU_COUNT, value |-> <<"a", "b", "c">>]
    , [given |-> <<"d", "e", "v", "i", "c", "e", "M", "o", "d", "e", "l", "=", "m", "B">>,   \* deviceModel=mB
       name |-> EMULATOR_DEVICE_MODEL, value |-> <<"m", "B">>]
    , [given |-> <<"h", "o", "s", "t", "N", "a", "m", "e", "=", "h", "1">>,   \* hostName=h1
       name |-> ENGINE_HOST_NAME, value |-> <<"h", "1">>]
    }

\* the canonical names
CanonicalNames ==
    {VM_MEMORY_SIZE_MB, VM_SWAP_SIZE_MB, VM_CPU_COUNT, VM_STORAGE_SIZE_MB,
     VM_FREE_STORAGE_SIZE_MB, EMULATOR_DEVICE_MODEL, EMULATOR_ORIENTATION,
     EMULATOR_DOWNSCALE, EMULATOR_SSH_PORT, EMULATOR_SSH_TIMEOUT, ENGINE_HOST_NAME,
     ENGINE_BUILD_ENVIRONMENT_FILTER, ENGINE_SSH_PORT, ENGINE_SSH_TIMEOUT, ENGINE_DBUS_PORT,
     WWW_PROXY_TYPE, WWW_PROXY_SERVERS, WWW_PROXY_EXCLUDES}

\* the step staged what the canonical assignment stages, with a notice if it
\* was accepted
StagedAs(outcome) ==
    /\ acc' = outcome.acc
    /\ prepareFailed' = (outcome.result # Prepared)
    /\ IF outcome.result = Prepared
       THEN /\ notices' = notices + 1
            /\ pc' = "prepare"
            /\ m_needsVmOff' = (m_needsVmOff \/ outcome.needsVmOff)
       ELSE /\ notices' = notices
            /\ pc' = "done"
            /\ errorString' = outcome.error

C20_CamelCasePrepared ==
    Read =>
        /\ \A camel \in CamelCaseGiven :
               argument' = camel.given =>
                   StagedAs(AccessorPrepareSet(kind, acc, live, features, camel.name,
                                               camel.value))
        /\ GivenName(argument') \in CanonicalNames =>
               /\ notices' = notices
               /\ normalizeProperty(GivenName(argument')) = GivenName(argument')

(* C20: a camel-case property name is taken for its canonical form, a '-'
   before each uppercase letter and the letter in lower case: the assignment
   is staged exactly as the one to the canonical name is, and once it is
   staged a deprecation notice is emitted; an assignment to a canonical name
   is looked up under that very name and emits no notice. *)
C20_CamelCaseAsCanonical == [][C20_CamelCasePrepared]_vars

\* vm.cpuCount=4 alone on the command line: one notice, and the machine has
\* four CPUs when the command has succeeded
C20_Witness ==
    /\ nPrepared = 1
    /\ argument = <<"v", "m", ".", "c", "p", "u", "C", "o", "u", "n", "t", "=", "4">>
    /\ notices = 1
    /\ pc = "done"
    /\ exitCode = "EXIT_SUCCESS"
    /\ live.cpuCount = 4
    /\ InitialLive.cpuCount # 4

-----------------------------------------------------------------------------
(* Apply: which setters are invoked *)

\* the guarded setters of the VM-level accessor: the operation, what is staged
\* and what the virtual machine had when the command began
VmSetters ==
    {<<"setMemorySizeMb", acc.m_memorySizeMb, InitialLive.memorySizeMb>>,
     <<"setSwapSizeMb", acc.m_swapSizeMb, InitialLive.swapSizeMb>>,
     <<"setCpuCount", acc.m_cpuCount, InitialLive.cpuCount>>,
     <<"setStorageSizeMb", acc.m_storageSizeMb, InitialLive.storageSizeMb>>}

\* the guarded setters of the accessor's own properties
OtherSetters(k) ==
    IF k = "emulator"
    THEN {<<"setDisplayProperties",
            <<acc.m_deviceModel, acc.m_orientation, acc.m_downscale>>,
            <<InitialLive.deviceModel, InitialLive.orientation, InitialLive.viewScaled>>>>,
          <<"Emulator::setSshPort", acc.m_sshPort, InitialLive.sshPort>>,
          <<"setSshParameters", acc.m_sshTimeout, InitialLive.sshTimeout>>}
    ELSE IF k = "engine"
    THEN {<<"BuildEngine::setSshPort", acc.m_sshPort, InitialLive.sshPort>>,
          <<"setSshParameters", acc.m_sshTimeout, InitialLive.sshTimeout>>,
          <<"setDBusPort", acc.m_dBusPort, InitialLive.dBusPort>>}
    ELSE {<<"setWwwProxy",
            <<acc.m_wwwProxyType, acc.m_wwwProxyServers, acc.m_wwwProxyExcludes>>,
            <<InitialLive.wwwProxyType, InitialLive.wwwProxyServers,
              InitialLive.wwwProxyExcludes>>>>}

GuardedSetters(k) == IF k = "sdk" THEN OtherSetters(k) ELSE VmSetters \cup OtherSetters(k)

\* the setter was invoked if what is staged differs from what the resource had
InvokedIfDiffers(setter) == setter[2] # setter[3] => Positions({setter[1]}) # {}

\* set() has returned after it went through m_accessor->set()
Applied == SetReturned /\ Started /\ (~m_needsVmOff \/ lockDownOk)

(* C24 as stated: once set() has gone through Apply (the virtual machine is
   locked down, or need not be), the setter of every property whose staged
   value differs from the current one has been invoked, also when another
   setter of the batch has failed before it. *)
C24_EveryDifferingSetterInvoked ==
    Applied => \A setter \in GuardedSetters(kind) : InvokedIfDiffers(setter)

-----------------------------------------------------------------------------
(* Requests that arrive while set() is running *)

\* a request has been delivered to the task
Requested == lastRequest.kind # "none"

\* the request is delivered and answered, and the task is where it was
OnlyAcknowledged ==
    lastRequest' # lastRequest =>
        /\ lastRequest'.acks = Acks(lastRequest'.kind)
        /\ UNCHANGED <<pc, log, live, acc, setOk, lockDownOk, m_needsVmOff, inWait,
                       exitCode, exitStatus, errorString>>

\* set() has run to its end as it does without a request
RanToCompletion ==
    (Requested /\ pc = "done") =>
        /\ SetReturned
        /\ Positions({"exited"}) = {Len(log)}
        /\ LockedDownAt # {} => Positions({"lockDown(false)"}) = {Len(log) - 1}
        /\ Applied =>
               /\ kind # "sdk" => \A setter \in VmSetters : InvokedIfDiffers(setter)
               /\ (\A i \in Positions(SetterOps) : log[i].ok) =>
                      \A setter \in OtherSetters(kind) : InvokedIfDiffers(setter)

(* C25: a terminate, stop or continue request that arrives while set() is
   running is only acknowledged: the step that delivers it leaves the
   position of the task, its results and the resource as they are, and a run
   that has received one still invokes its setters, still requests
   lockDown(false) if the virtual machine was locked down, and still ends
   with its exit notification. *)
C25_RequestDoesNotInterrupt == [](RanToCompletion) /\ [][OnlyAcknowledged]_vars

\* a terminate request has arrived after the virtual machine was locked down
\* and the first setter was invoked, with the CPU count still to be set
C25_Witness ==
    /\ lastRequest.kind = "terminate"
    /\ pc = "vm.cpu"
    /\ LockedDownAt # {}
    /\ Positions({"setMemorySizeMb"}) # {}
    /\ acc.m_cpuCount # live.cpuCount
    /\ Positions({"exited"}) = {}

-----------------------------------------------------------------------------
(* Build-target reconciliation: the order of removals and additions *)

\* the signals of one kind among the events of a refresh, in the order emitted
SignalsOf(r, name) == SelectSeq(r.events, LAMBDA e : e.signal = name)

RemovalsOf(r) == SignalsOf(r, "aboutToRemoveBuildTarget")
AdditionsOf(r) == SignalsOf(r, "buildTargetAdded")

\* the k-th removal signal: its index is the k-th greatest of toRemove, it is
\* within the list as the removals before it have left it, and the entry it
\* found at that index is the cached entry the match loop had put on toRemove
RemovalInPlace(removals, k, toRemove, cached) ==
    /\ removals[k].index = toRemove[Len(toRemove) + 1 - k]
    /\ k > 1 => removals[k].index < removals[k - 1].index
    /\ removals[k].index >= 0
    /\ removals[k].index < Len(cached) - (k - 1)
    /\ removals[k].target = cached[removals[k].index + 1]

C27_RemovalsPrepared ==
    (Refreshed(run') /\ run'.accepted) =>
        /\ Len(RemovalsOf(run')) = Len(run'.toRemove)
        /\ \A k \in 1..Len(RemovalsOf(run')) :
               RemovalInPlace(RemovalsOf(run'), k, run'.toRemove, buildTargets)

(* C27: in a reconciliation the removals are carried out in strictly
   descending order of the index; aboutToRemoveBuildTarget(i) is emitted for
   each before the entry is erased, and when it is emitted i is within the
   list and the entry at i is the one that is about to be removed. *)
C27_RemovalsDescendAndAnnounced == [][C27_RemovalsPrepared]_vars

\* both cached entries were removed, the one at index 1 first
C27_Witness ==
    /\ Refreshed(run)
    /\ run.accepted
    /\ run.toRemove = <<0, 1>>
    /\ Len(RemovalsOf(run)) = 2
    /\ RemovalsOf(run)[1].index = 1
    /\ RemovalsOf(run)[2].index = 0
    /\ RemovalsOf(run)[1].target # RemovalsOf(run)[2].target

\* the k-th addition signal of n: it carries the index the entry has in the
\* end, which was the last index when it was emitted
AdditionAtEnd(additions, k, targets) ==
    /\ additions[k].index = Len(targets) - Len(additions) + k - 1
    /\ additions[k].target = targets[additions[k].index + 1]

\* where the last removal and the first addition stand among the events
LastRemoval(events) ==
    IF \E k \in 1..Len(events) : events[k].signal = "aboutToRemoveBuildTarget"
    THEN CHOOSE k \in 1..Len(events) :
             /\ events[k].signal = "aboutToRemoveBuildTarget"
             /\ \A j \in (k + 1)..Len(events) : events[j].signal # "aboutToRemoveBuildTarget"
    ELSE 0
FirstAddition(events) ==
    IF \E k \in 1..Len(events) : events[k].signal = "buildTargetAdded"
    THEN CHOOSE k \in 1..Len(events) :
             /\ events[k].signal = "buildTargetAdded"
             /\ \A j \in 1..(k - 1) : events[j].signal # "buildTargetAdded"
    ELSE Len(events) + 1

C28_AdditionsPrepared ==
    (Refreshed(run') /\ run'.accepted) =>
        /\ Len(AdditionsOf(run'))
               = Len(Sanitized(run'.targets)) - (Len(buildTargets) - Len(run'.toRemove))
        /\ Len(buildTargets') = Len(Sanitized(run'.targets))
        /\ LastRemoval(run'.events) < FirstAddition(run'.events)
        /\ \A k \in 1..Len(AdditionsOf(run')) :
               /\ AdditionAtEnd(AdditionsOf(run'), k, buildTargets')
               /\ buildTargetsData'[AdditionsOf(run')[k].index + 1]
                      = TargetData[AdditionsOf(run')[k].target]
               /\ ~useSystemSettingsOnly => AdditionsOf(run')[k].target.name \in toolsDirs'
        /\ useSystemSettingsOnly => toolsDirs' = toolsDirs

(* C28: in a reconciliation every entry of the authoritative list that
   matched no cached entry is appended to the end of the cache after all
   removals; buildTargetAdded(i) is emitted once for each, i being the last
   index when it is emitted and the index the entry has in the end; its
   wrappers are initialized unless system-settings-only mode is on. *)
C28_UnmatchedAppendedAfterRemovals == [][C28_AdditionsPrepared]_vars

\* one entry removed and two appended after it, with their wrappers
C28_Witness ==
    /\ Refreshed(run)
    /\ run.accepted
    /\ ~useSystemSettingsOnly
    /\ Len(RemovalsOf(run)) = 1
    /\ Len(AdditionsOf(run)) = 2
    /\ AdditionsOf(run)[1].index = 0
    /\ AdditionsOf(run)[2].index = 1
    /\ AdditionsOf(run)[1].target.name \in toolsDirs
    /\ AdditionsOf(run)[2].target.name \in toolsDirs

-----------------------------------------------------------------------------
(* Build-target reconciliation: what is updated in place *)

NamesOf(targets) == {targets[j].name : j \in 1..Len(targets)}

\* the entry is listed under another name, with the same origin and the same
\* validation suites, by a probe that gave another machine
RenamedOf(x, y, cached) ==
    /\ y.name \notin NamesOf(cached)
    /\ y.origin = x.origin
    /\ y.rpmValidationSuites = x.rpmValidationSuites
    /\ y.gccDumpMachine # x.gccDumpMachine

\* the cached entries the list has renamed
RenamedIndices(cached, list) ==
    {i \in 0..(Len(cached) - 1) :
        /\ cached[i + 1].name \notin NamesOf(list)
        /\ \E j \in 1..Len(list) : RenamedOf(cached[i + 1], list[j], cached)}

C29_RenamePrepared ==
    (Refreshed(run') /\ run'.accepted
        /\ RenamedIndices(buildTargets, Sanitized(run'.targets)) # {}) =>
        /\ run'.events = <<>>
        /\ \A i \in RenamedIndices(buildTargets, Sanitized(run'.targets)) :
               \E k \in 1..Len(run'.updated) : run'.updated[k].index = i

(* C29 as stated: when the authoritative list has renamed a cached target,
   the configuration being the same and only raw probe fields differing, the
   cached entry is updated in place and neither buildTargetAdded nor
   aboutToRemoveBuildTarget is emitted. *)
C29_RenameUpdatesInPlace == [][C29_RenamePrepared]_vars

\* the k-th in-place update: the new dump has the name and the origin of the
\* cached entry and the data createTargetData derives is equal to the cached
\* data, the dump itself is another one, and it is stored at the old place;
\* its wrappers are there unless the removal of a cached duplicate of the
\* same name has taken them away again
UpdatedInPlace(update, cached, cachedData, removed, targets, dirs, systemOnly) ==
    /\ update.target.name = cached[update.index + 1].name
    /\ update.target.origin = cached[update.index + 1].origin
    /\ BuildTargetDataEquals(TargetData[update.target], cachedData[update.index + 1])
    /\ update.target # cached[update.index + 1]
    /\ update.index \notin removed
    /\ targets[ShiftedIndex(update.index, removed) + 1] = update.target
    /\ (~systemOnly /\ \A i \in removed : cached[i + 1].name # update.target.name)
           => update.target.name \in dirs

\* what a refresh did with the names: every update is an update in place,
\* every cached entry whose name is no longer listed is removed, every new
\* name is added, and an update of the only entry emits nothing
SameNameUpdated(r, listed, removed, additions) ==
    /\ \A k \in 1..Len(r.updated) :
           UpdatedInPlace(r.updated[k], buildTargets, buildTargetsData, removed,
                          buildTargets', toolsDirs', useSystemSettingsOnly)
    /\ \A i \in 0..(Len(buildTargets) - 1) :
           buildTargets[i + 1].name \notin listed => i \in removed
    /\ \A name \in listed \ NamesOf(buildTargets) :
           \E k \in 1..Len(additions) : additions[k].target.name = name
    /\ (r.updated # <<>> /\ Len(buildTargets') = 1 /\ Len(buildTargets) = 1)
           => r.events = <<>>

C29_SameNamePrepared ==
    (Refreshed(run') /\ run'.accepted) =>
        \A listed \in {NamesOf(Sanitized(run'.targets))}, removed \in {RemovedIndices(run')},
           additions \in {AdditionsOf(run')} :
            SameNameUpdated(run', listed, removed, additions)

(* C29: a cached entry is updated in place only by an entry of the same
   name: when the authoritative list holds no equal dump for it but one whose
   derived data (name, origin, sysroot, tools path, debugger, validation
   suites) is equal, the dump is replaced at its place, the wrappers are
   re-initialized and nothing is emitted for it. A renamed target has another
   name, sysroot and tools path: the cached entry is removed with
   aboutToRemoveBuildTarget and the renamed one is appended with
   buildTargetAdded. *)
C29_InPlaceUpdateKeepsTheName == [][C29_SameNamePrepared]_vars

\* target a probed again with another machine: updated at index 0, no signal
C29_Witness ==
    /\ Refreshed(run)
    /\ run.accepted
    /\ Len(run.updated) = 1
    /\ run.updated[1].index = 0
    /\ run.updated[1].target.name = TargetA
    /\ run.updated[1].target.gccDumpMachine = "m2"
    /\ buildTargets = <<run.updated[1].target>>
    /\ run.events = <<>>
    /\ TargetA \in toolsDirs

-----------------------------------------------------------------------------
(* Stored settings with missing keys *)

\* the merge has stopped at a missing engine key
EngineKeyMissing(m) == m.op = "fromMap" /\ m.missingKey

\* the calls of BuildEnginePrivate::fromMap that found a build-target key missing
FailedLoads(m) == {k \in 1..Len(m.loads) : ~m.loads[k].ok}

TargetKeyMissing(m) == MergeReached(m) /\ FailedLoads(m) # {}

\* the cached engines of the URI that the first loop has not dropped
KeptOf(m, vmUri) ==
    {i \in 1..Len(m.cached) :
        /\ m.cached[i].vmUri = vmUri
        /\ ~Dropping(m.cached[i], m.newEnginesData, m.fromSystemSettings)}

AddedFor(m, vmUri) ==
    \E k \in 1..Len(m.events) :
        /\ m.events[k].name = "buildEngineAdded"
        /\ m.events[k].vmUri = vmUri

RegisteredFor(vmUri) == {j \in 1..Len(m_buildEngines) : m_buildEngines[j].vmUri = vmUri}

\* the build targets of the engines registered for the URI are those cached
TargetsKept(m, vmUri) ==
    \A j \in RegisteredFor(vmUri) :
        \E i \in 1..Len(m.cached) :
            /\ m.cached[i].vmUri = vmUri
            /\ m_buildEngines[j].buildTargets = m.cached[i].buildTargets
            /\ m_buildEngines[j].buildTargetsData = m.cached[i].buildTargetsData

(* C21 as stated: a load that finds a key missing is aborted with nothing
   changed and nothing signalled: a missing engine key leaves the registry of
   engines as it was, a missing build-target key leaves the build targets of
   that engine as they were, and in neither case is an add or remove
   notification emitted. *)
C21_CorruptLoadChangesNothing ==
    /\ EngineKeyMissing(merged) => (m_buildEngines = merged.cached /\ merged.events = <<>>)
    /\ TargetKeyMissing(merged) =>
           /\ \A k \in FailedLoads(merged) :
                  /\ TargetsKept(merged, merged.loads[k].vmUri)
                  /\ merged.loads[k].events = <<>>
           /\ merged.events = <<>>

\* the merge that stopped in the engine of the URI: the engine, if it was
\* cached, has taken the settings of its entry and kept its build targets; if
\* it was not, none is added
AbortedIn(m, vmUri) ==
    /\ TargetsKept(m, vmUri)
    /\ \A i \in KeptOf(m, vmUri) :
           \E j \in RegisteredFor(vmUri) :
               m_buildEngines[j] = EngineSettingsFromMap(m.cached[i], m.newEnginesData[vmUri])
    /\ KeptOf(m, vmUri) = {} => RegisteredFor(vmUri) = {}
    /\ ~AddedFor(m, vmUri)

(* C21: a missing key aborts the load where it stands. A missing engine key
   is found before the registry is touched: no engine is added, removed or
   loaded and nothing is signalled. A missing build-target key is found by the
   engine while the merge is under way: that engine keeps its build targets
   and signals nothing for them, a new engine is not added, and the merge
   returns at once; the engines the first loop has dropped stay dropped, with
   their aboutToRemoveBuildEngine emitted, and the entries merged before stay
   merged. *)
C21_CorruptLoadAbortsWhereItStands ==
    /\ EngineKeyMissing(merged) =>
           /\ m_buildEngines = merged.cached
           /\ merged.events = <<>>
           /\ merged.loads = <<>>
    /\ TargetKeyMissing(merged) =>
           /\ merged.returned
           /\ FailedLoads(merged) = {Len(merged.loads)}
           /\ merged.loads[Len(merged.loads)].events = <<>>
           /\ AbortedIn(merged, merged.loads[Len(merged.loads)].vmUri)
           /\ \A i \in 1..Len(merged.cached) :
                  Dropping(merged.cached[i], merged.newEnginesData,
                           merged.fromSystemSettings)
                      => /\ DroppedBy(merged, merged.cached[i])
                         /\ ~StillRegistered(merged.cached[i])

\* user settings that list engine B alone, with a build-target key missing,
\* merged into a registry of A and B: A was dropped, B has kept its target
C21_Witness ==
    /\ TargetKeyMissing(merged)
    /\ ~merged.fromSystemSettings
    /\ Len(merged.cached) = 2
    /\ merged.events # <<>>
    /\ Len(m_buildEngines) = 1
    /\ m_buildEngines[1].vmUri = UriB
    /\ m_buildEngines[1].buildTargets # <<>>

-----------------------------------------------------------------------------
(* The build targets an engine holds *)

\* no target is the origin of another, and every snapshot is named after
\* its origin: origin, a dot, and a suffix that is not empty
WellFormedTargets(targets) ==
    /\ \A i \in 1..Len(targets) : \A j \in 1..Len(targets) :
           targets[i].name # targets[j].origin
    /\ \A i \in 1..Len(targets) :
           targets[i].origin # Empty =>
               /\ Len(targets[i].name) > Len(targets[i].origin) + 1
               /\ SubSeq(targets[i].name, 1, Len(targets[i].origin) + 1)
                      = Append(targets[i].origin, ".")

(* C26: after any sequence of settings loads and refreshes from
   targets.xml, the build targets every engine holds are well formed: no
   target has the name that another one (or itself) gives as its origin, and
   every target with an origin is named origin + "." + a suffix that is not
   empty. *)
C26_CachedTargetsWellFormed ==
    /\ WellFormedTargets(buildTargets)
    /\ \A j \in 1..Len(m_buildEngines) : WellFormedTargets(m_buildEngines[j].buildTargets)

\* the stored list had target a and its snapshot: the engine holds the
\* snapshot alone
C26_Witness ==
    /\ MergeReached(merged)
    /\ UriB \in DOMAIN merged.newEnginesData
    /\ Len(merged.newEnginesData[UriB].targets) = 2
    /\ merged.newEnginesData[UriB].targetsCount = 2
    /\ \E j \in 1..Len(m_buildEngines) :
           /\ m_buildEngines[j].vmUri = UriB
           /\ Len(m_buildEngines[j].buildTargets) = 1
           /\ m_buildEngines[j].buildTargets[1].origin = TargetA

-----------------------------------------------------------------------------
(* The identity of a build engine: URI and creation time *)

\* the cached engines whose URI is in the merged data with another creation time
RecreatedEngines(m) ==
    {i \in 1..Len(m.cached) :
        /\ m.cached[i].vmUri \in DOMAIN m.newEnginesData
        /\ m.newEnginesData[m.cached[i].vmUri].creationTime # m.cached[i].creationTime}

\* BuildEnginePrivate::fromMap was called for the URI and returned true
LoadedFor(m, vmUri) ==
    \E k \in 1..Len(m.loads) : m.loads[k].vmUri = vmUri /\ m.loads[k].ok

\* a fresh engine, loaded from the entry of the URI, is registered
FreshFor(m, vmUri) ==
    /\ AddedFor(m, vmUri)
    /\ \E j \in 1..Len(m_buildEngines) :
           m_buildEngines[j] = BuildEngineFromMap(NewBuildEngine, m.newEnginesData[vmUri],
                                                  useSystemSettingsOnly)

\* a cached engine is loaded in place, or left alone, only as the identity it has
MatchedByIdentity(m) ==
    \A i \in 1..Len(m.cached) :
        /\ DroppedBy(m, m.cached[i]) => ~inNewData(m.cached[i], m.newEnginesData)
        /\ (inNewData(m.cached[i], m.newEnginesData) /\ ~m.fromSystemSettings) =>
               /\ ~AddedFor(m, m.cached[i].vmUri)
               /\ \E j \in RegisteredFor(m.cached[i].vmUri) :
                      m_buildEngines[j].creationTime = m.cached[i].creationTime

(* C30 as stated: on a user-scope merge a cached engine whose URI is in the
   new data with another creation time is removed with
   aboutToRemoveBuildEngine, and a fresh engine is created and added for the
   URI. *)
C30_RecreatedEngineReplaced ==
    (MergeReached(merged) /\ ~merged.fromSystemSettings) =>
        \A i \in RecreatedEngines(merged) :
            /\ DroppedBy(merged, merged.cached[i])
            /\ ~StillRegistered(merged.cached[i])
            /\ FreshFor(merged, merged.cached[i].vmUri)

(* C30: a cached engine is matched to an entry of the new data only when
   URI and creation time are both equal. On a user-scope merge a cached engine
   whose URI is in the new data with another creation time is removed with
   aboutToRemoveBuildEngine; a fresh engine is created for the URI, and it is
   added when it has read its entry. When the merge returns before that, on
   a build-target key missing in this entry or in one merged before it, the
   removal stays and no engine is registered for the URI. *)
C30_RecreatedEngineRemovedAndReloaded ==
    MergeReached(merged) =>
        /\ MatchedByIdentity(merged)
        /\ ~merged.fromSystemSettings =>
               \A i \in RecreatedEngines(merged) :
                   /\ DroppedBy(merged, merged.cached[i])
                   /\ ~StillRegistered(merged.cached[i])
                   /\ IF LoadedFor(merged, merged.cached[i].vmUri)
                      THEN FreshFor(merged, merged.cached[i].vmUri)
                      ELSE /\ RegisteredFor(merged.cached[i].vmUri) = {}
                           /\ ~AddedFor(merged, merged.cached[i].vmUri)
                           /\ merged.returned

\* engine A was cached as created at time 1 and the user settings list it as
\* created at time 2: the old one was announced as removed, the new one added
C30_Witness ==
    /\ MergeReached(merged)
    /\ ~merged.fromSystemSettings
    /\ \E i \in RecreatedEngines(merged) :
           /\ merged.cached[i].vmUri = UriA
           /\ merged.cached[i].creationTime = 1
           /\ DroppedBy(merged, merged.cached[i])
    /\ AddedFor(merged, UriA)
    /\ \E j \in RegisteredFor(UriA) : m_buildEngines[j].creationTime = 2
    /\ Len(m_buildEngines) = 2

-----------------------------------------------------------------------------
(* BatchComposer: the order of the queued steps *)

\* where the composer logged the event
LoggedAt(event) == {p \in 1..Len(batchLog) : batchLog[p] = event}

StartsAt == {p \in 1..Len(batchLog) : batchLog[p].ev = "started"}

\* the steps in flight
Running == {i \in 1..Len(m_queue) : m_queue[i].running}

\* the step started at p was started after every step enqueued before it
\* had finished
StartedAfterEarlier(p) ==
    \A id \in 1..(batchLog[p].id - 1) :
        \E q \in LoggedAt(StepFinished(id)) : q < p

\* a call that reports through a check point has not been answered while
\* its check point waits in the queue
WaitingCallsUnanswered ==
    \A i \in 1..Len(m_queue) :
        m_queue[i].step = "checkPoint" =>
            /\ asyncCalls[m_queue[i].call].phase = "queued"
            /\ asyncCalls[m_queue[i].call].fired = 0

\* C22: the steps enqueued on the composer start in the order they were
\* enqueued and never overlap: at most one step is in flight, no step starts
\* twice, and a step (a runner, or the check point that carries the failure
\* of importPrivateGpgKey or createBuildEngine) starts only after every step
\* enqueued before it has finished; until then its callback is not invoked
C22_QueuedStepsRunInOrder ==
    /\ Cardinality(Running) <= 1
    /\ \A p \in StartsAt, q \in StartsAt : p < q => batchLog[p].id < batchLog[q].id
    /\ \A p \in StartsAt : StartedAfterEarlier(p)
    /\ WaitingCallsUnanswered

\* a check point was enqueued behind a runner in flight and a second runner,
\* and its callback was invoked once both had finished
C22_Witness ==
    /\ \E p \in LoggedAt(StepEnqueued(3)), q \in LoggedAt(StepFinished(1)),
          r \in LoggedAt(StepFinished(2)), t \in LoggedAt(StepStarted(3)) :
           p < q /\ q < r /\ r < t
    /\ \E i \in 1..Len(asyncCalls) :
           /\ asyncCalls[i].op = "importPrivateGpgKey"
           /\ asyncCalls[i].result = Answer(FALSE)
           /\ asyncCalls[i].fired = 1

-----------------------------------------------------------------------------
(* The completion functors of the asynchronous operations *)

AsyncOperations ==
    {"setSshPort", "setDBusPort", "setSharedSrcPath", "importPrivateGpgKey",
     "updateVmProperties", "createBuildEngine"}

Completed == {i \in 1..Len(asyncCalls) : asyncCalls[i].phase = "completed"}

\* the call completes in this step
Completes(i) ==
    /\ i \in 1..Len(asyncCalls')
    /\ asyncCalls'[i].phase = "completed"
    /\ (i \in 1..Len(asyncCalls) => asyncCalls[i].phase # "completed")

\* C23 as stated: every call of an asynchronous operation that has completed
\* has invoked its completion functor exactly once
C23_FunctorInvokedExactlyOnce ==
    \A i \in Completed : asyncCalls[i].fired = 1

\* when a call completes, its functor is invoked once if the context given
\* with the call still exists, and not at all if it was destroyed
InvokedIfContextLives ==
    \A i \in 1..MaxCalls :
        Completes(i) =>
            asyncCalls'[i].fired = (IF asyncCalls'[i].context \in liveContexts THEN 1 ELSE 0)

\* a completed call stays as it is
CompletedIsFinal ==
    \A i \in Completed : asyncCalls'[i] = asyncCalls[i]

\* C23 (amended): a call of setSshPort, setDBusPort, setSharedSrcPath,
\* importPrivateGpgKey, updateVmProperties or createBuildEngine never invokes
\* its functor more than once and not before it completes; on completion,
\* successful or failed, the functor is invoked exactly once when the context
\* object given with the call still exists, and is not invoked when that
\* context has been destroyed
C23_FunctorInvokedOnceWhileContextLives ==
    /\ [](\A i \in 1..Len(asyncCalls) :
             /\ asyncCalls[i].op \in AsyncOperations
             /\ asyncCalls[i].fired <= 1
             /\ (i \notin Completed => asyncCalls[i].fired = 0)
             /\ (i \in Completed /\ asyncCalls[i].context \in liveContexts
                    => asyncCalls[i].fired = 1))
    /\ [][InvokedIfContextLives /\ CompletedIsFinal]_vars

\* createBuildEngine completed on a failure path after the other context was
\* destroyed: its own context exists and its functor was handed nullptr, once
C23_Witness ==
    \E i \in Completed :
        /\ asyncCalls[i].op = "createBuildEngine"
        /\ asyncCalls[i].result = "nullptr"
        /\ asyncCalls[i].fired = 1
        /\ asyncCalls[i].context \in liveContexts
        /\ liveContexts # Contexts

-----------------------------------------------------------------------------
(* BatchComposer: a callback whose context is gone *)

StepIds == 1..(MaxCalls + MaxQueued)

\* the calls that reported through a check point whose callback was skipped
Skipped ==
    {i \in 1..Len(asyncCalls) :
        /\ asyncCalls[i].checkPoint
        /\ asyncCalls[i].phase = "completed"
        /\ asyncCalls[i].fired = 0}

\* C31: when the context of a queued callback has been destroyed the callback
\* is skipped and the queue advances: provided every started runner completes,
\* every step that was enqueued is eventually started, and the check point of
\* a call waits in the queue only while the call is unanswered
C31_QueueAdvancesPastSkippedCallback ==
    /\ \A id \in StepIds :
           (LoggedAt(StepEnqueued(id)) # {}) ~> (LoggedAt(StepStarted(id)) # {})
    /\ [](\A i \in Skipped : asyncCalls[i].context \notin liveContexts)

\* a check point waited behind a runner, its context was destroyed, a second
\* runner was enqueued behind it; the callback was skipped and the second
\* runner started
C31_Witness ==
    /\ Skipped # {}
    /\ \E p \in LoggedAt(StepEnqueued(3)), q \in LoggedAt(StepFinished(1)),
          r \in LoggedAt(StepFinished(2)), t \in LoggedAt(StepStarted(3)) :
           p < q /\ q < r /\ r < t
    /\ Running # {}

-----------------------------------------------------------------------------
(* Worker::run: the order of the hooks and of doRun *)

RunSteps == <<"commandLineFilter", "preRun", "doRun", "postRun">>

StepRank(op) == CHOOSE r \in 1..Len(RunSteps) : RunSteps[r] = op

StepRan(op) == \E i \in 1..Len(log) : log[i].op = op

\* the function is there, it returned without an error
Returned(script) == script.function = "callable" /\ script.returns = "value"

\* the filter hook is not configured, or it returned an array of strings
FilterPassed ==
    Configured(command.commandLineFilter) =>
        /\ Returned(command.commandLineFilter)
        /\ FilterResultValid(command.commandLineFilter.value)

\* a pre-run or post-run hook is not configured, or it returned [true, string]
PrePostPassed(script) ==
    Configured(script) =>
        /\ Returned(script)
        /\ PrePostResultValid(script.value)
        /\ script.value.items[1] = JSItem("bool", "true")

\* C32: Worker::run runs the command line filter hook, the pre-run hook, doRun
\* and the post-run hook in this order, each at most once and a hook only
\* when it is configured; doRun is executed only if every configured hook
\* before it succeeded with a value its validator accepts, and when one of
\* them did not, run returns with the abnormal exit code and neither doRun nor
\* the post-run hook was executed
C32_HooksGateDoRun ==
    /\ \A i \in 1..Len(log), j \in 1..Len(log) :
           i < j => StepRank(log[i].op) < StepRank(log[j].op)
    /\ ~Configured(command.commandLineFilter) => ~StepRan("commandLineFilter")
    /\ ~Configured(command.preRun) => ~StepRan("preRun")
    /\ ~Configured(command.postRun) => ~StepRan("postRun")
    /\ StepRan("doRun") => FilterPassed /\ PrePostPassed(command.preRun)
    /\ StepRan("postRun") => StepRan("doRun")
    /\ runPc = "returned" =>
           IF FilterPassed /\ PrePostPassed(command.preRun)
           THEN StepRan("doRun")
           ELSE /\ exitCode = "SFDK_EXIT_ABNORMAL"
                /\ exitStatus = "NormalExit"
                /\ ~StepRan("doRun")
                /\ ~StepRan("postRun")

\* a command with all three hooks ran them around doRun, on the arguments the
\* filter returned, and succeeded
C32_Witness ==
    /\ runPc = "returned"
    /\ Len(log) = 4
    /\ log[3].op = "doRun"
    /\ log[3].staged = <<"b">>
    /\ log[4].op = "postRun"
    /\ exitCode = "EXIT_SUCCESS"

-----------------------------------------------------------------------------
(* Build targets: the derived records and the cached collection *)

\* C33: after any sequence of reconciliations, in-place updates included, the
\* derived record at every index is the one createTargetData gives for the
\* cached dump at that index, in every field, the machine and the flags too
C33_DerivedDataFollowsTheDumps ==
    /\ Len(buildTargetsData) = Len(buildTargets)
    /\ \A i \in 1..Len(buildTargets) :
           buildTargetsData[i] = TargetData[buildTargets[i]]

\* how often the dump occurs in the list
Occurrences(target, targets) ==
    Cardinality({i \in 1..Len(targets) : targets[i] = target})

\* the two lists hold the same dumps, each as often as the other
SameMultiset(targets, others) ==
    /\ Len(targets) = Len(others)
    /\ \A i \in 1..Len(targets) :
           Occurrences(targets[i], targets) = Occurrences(targets[i], others)

\* C34: when updateBuildTargets(A) has returned, the cached dumps are, as a
\* multiset, the dumps of A that passed the sanity check, whatever the cache
\* held before
C34_CacheIsTheSanitizedList ==
    (Refreshed(run) /\ run.accepted) => SameMultiset(buildTargets, Sanitized(run.targets))

\* a cache of two targets was refreshed from a list that keeps one of them
\* updated, drops the other and brings a new one
C34_Witness ==
    /\ Refreshed(run)
    /\ run.accepted
    /\ run.updated # <<>>
    /\ run.toRemove # <<>>
    /\ AdditionsOf(run) # <<>>
    /\ Len(buildTargets) = 2

-----------------------------------------------------------------------------
(* C35 *)

\* task->set(&errorString) has returned false to setProperties
SetReturnedFalse ==
    /\ pc = "done"
    /\ ~prepareFailed
    /\ exitStatus = "NormalExit"
    /\ exitCode = "EXIT_FAILURE"

\* C35: whenever SetPropertiesTask::set returns false, the error string it
\* leaves for the caller to print is not empty, also when lockDown(true) was
\* the step that failed.
C35_FailedSetExplainsItself == SetReturnedFalse => errorString # NoErrorString

-----------------------------------------------------------------------------
(* C36 *)

\* the property an argument of the command assigns
AssignedProperty(assignment) ==
    normalizeProperty(left(assignment, indexOf(assignment, "=")))

SetterInvoked(op) == \E i \in 1..Len(log) : log[i].op = op

\* C36: set() never invokes the setter of a property that was not assigned in
\* the batch, even when the live value of that property changes while the task
\* waits, between the accessor's snapshot and the comparison in set(). Stated
\* for the batches of one assignment, where the last argument read is the
\* whole batch, and for the two ports a refresh of the build engine rewrites.
C36_OnlyAssignedPropertiesAreSet ==
    (kind = "engine" /\ nPrepared = 1) =>
        /\ SetterInvoked("BuildEngine::setSshPort") =>
               AssignedProperty(argument) = ENGINE_SSH_PORT
        /\ SetterInvoked("setDBusPort") => AssignedProperty(argument) = ENGINE_DBUS_PORT

-----------------------------------------------------------------------------
(* C37 *)

\* every prepareSet of the batch so far returned Prepared
BatchPrepared == nPrepared >= 1 /\ ~prepareFailed

\* C37: after a successful prepareSet of every assignment of a batch, the
\* staged swap size is not greater than the staged storage size, whatever the
\* order in which vm.swap-size and vm.storage-size were assigned.
C37_StagedSwapFitsStagedStorage ==
    (kind # "sdk" /\ BatchPrepared) => acc.m_swapSizeMb <= acc.m_storageSizeMb

-----------------------------------------------------------------------------
(* C38 *)

\* the one assignment of the batch was accepted and staged the value the
\* property already had
OnlyCurrentValuesAssigned ==
    nPrepared = 1 /\ ~prepareFailed /\ acc = NewAccessor(InitialLive)

\* C38: a batch in which every assigned value equals the property's current
\* value never locks the virtual machine down and never fails with the
\* request to stop it, even when the machine is running.
C38_UnchangedBatchNeedsNoStop ==
    OnlyCurrentValuesAssigned =>
        /\ ~SetterInvoked("lockDown(true)")
        /\ errorString # stopVmMessage

-----------------------------------------------------------------------------
(* C39 *)

\* C39: after any sequence of merges by BuildEngineManager::fromMap, of user
\* and of system scope in any order and with any data, starting from an empty
\* registry, no two engines of the registry have the same VM URI.
C39_NoTwoEnginesShareAVmUri ==
    \A i, j \in 1..Len(m_buildEngines) :
        i # j => m_buildEngines[i].vmUri # m_buildEngines[j].vmUri

\* a merge of system scope found an auto-detected engine that its data lists,
\* left it as the user has it, and added the other engine of its data
C39_Witness ==
    /\ MergeReached(merged)
    /\ merged.fromSystemSettings
    /\ \E i \in PresentEngines(merged) : merged.cached[i].autodetected
    /\ \E k \in 1..Len(merged.events) : merged.events[k].name = "buildEngineAdded"
    /\ Len(m_buildEngines) = 2

-----------------------------------------------------------------------------
(* C40 *)

Setters == {"setSshPort", "setDBusPort", "setSharedSrcPath"}

\* the cache of the engine once the setter's value is stored in it
StoredBy(op, props) ==
    IF op = "setSshPort" THEN [props EXCEPT !.sshPort = 2223]
    ELSE IF op = "setDBusPort" THEN [props EXCEPT !.dBusPort = 7778]
    ELSE [props EXCEPT !.sharedSrcPath = "src2"]

\* the step is the completion handler of call i, a call of one of the setters
SetterCompletes(i) ==
    i \in 1..Len(asyncCalls) /\ Completes(i) /\ asyncCalls[i].op \in Setters

\* what the functor was told agrees with what was done to the cache
ReportAgrees(i) ==
    /\ asyncCalls'[i].result = "true" => engineProps' = StoredBy(asyncCalls[i].op, engineProps)
    /\ asyncCalls'[i].result = "false" => engineProps' = engineProps

\* C40 as stated: the cached value is updated exactly when the operation of
\* the virtual machine reports success; when it reports failure the cache is
\* unchanged and the functor receives false
SetterStoresOrReportsFalse ==
    \A i \in 1..MaxCalls :
        SetterCompletes(i) =>
            /\ \/ engineProps' = StoredBy(asyncCalls[i].op, engineProps)
               \/ engineProps' = engineProps /\ asyncCalls'[i].result = "false"
            /\ ReportAgrees(i)

C40_CacheUpdatedIffSuccessElseFalse == [][SetterStoresOrReportsFalse]_vars

\* the same, with the functor told only while its context exists
SetterStoresOrReportsFalseToLiveContext ==
    \A i \in 1..MaxCalls :
        SetterCompletes(i) =>
            /\ \/ engineProps' = StoredBy(asyncCalls[i].op, engineProps)
               \/ /\ engineProps' = engineProps
                  /\ asyncCalls'[i].result =
                         (IF asyncCalls[i].context \in liveContexts THEN "false" ELSE "none")
            /\ ReportAgrees(i)

\* C40 (amended): for setSshPort, setDBusPort and setSharedSrcPath the cached
\* value is updated exactly when the operation of the virtual machine reports
\* success; when it reports failure the cached value is unchanged and the
\* completion functor receives false if the context object given with the
\* call still exists, and is not invoked otherwise
C40_CacheUpdatedIffSuccessElseFalseToLiveContext ==
    [][SetterStoresOrReportsFalseToLiveContext]_vars

\* setSshPort failed: the port is the one cached before and the functor, whose
\* context exists, was handed false
C40_Witness ==
    \E i \in Completed :
        /\ asyncCalls[i].op = "setSshPort"
        /\ asyncCalls[i].result = "false"
        /\ asyncCalls[i].context \in liveContexts
        /\ engineProps = InitialEngineProps

====
